---- MODULE Spec2Model ----
(***************************************************************************)
(* Consentify core (packages/core/src/index.ts): policy identity, snapshot *)
(* codec and validation, storage backends, server facade, client store     *)
(* with listeners, cross-tab broadcast and guard().                        *)
(*                                                                         *)
(* Strings whose content matters (policy identities, hashed text) are      *)
(* sequences of one-character strings; JSON objects keep their key order   *)
(* as sequences of <<key, value>> pairs; JavaScript values stored under a  *)
(* choices key are "true", "false" or a non-boolean ("yes", truthy).       *)
(***************************************************************************)
EXTENDS Integers, Sequences, FiniteSets, TLC

\* ------------------------------------------------------------------ bounds
\* Number of undelivered broadcast signals an instance's channel may hold.
MaxPending == 1
\* Number of clock advances in one behaviour.
MaxTicks == 2
\* Saturation bound of the guard callback counters.
MaxCalls == 2
\* Number of gtag commands followed in window.dataLayer.
MaxSent == 3

\* ------------------------------------------------------------ text, hashing
\* UTF-16 code units of the characters that occur in hashed text.
CharCode(ch) ==
    CASE ch = "{" -> 123 [] ch = "}" -> 125 [] ch = "[" -> 91 [] ch = "]" -> 93
      [] ch = "\"" -> 34 [] ch = ":" -> 58 [] ch = "," -> 44
      [] ch = "a" -> 97 [] ch = "b" -> 98 [] ch = "c" -> 99 [] ch = "d" -> 100
      [] ch = "e" -> 101 [] ch = "f" -> 102 [] ch = "g" -> 103 [] ch = "i" -> 105
      [] ch = "l" -> 108 [] ch = "n" -> 110 [] ch = "o" -> 111 [] ch = "r" -> 114
      [] ch = "s" -> 115 [] ch = "t" -> 116 [] ch = "u" -> 117 [] ch = "v" -> 118
      [] ch = "1" -> 49 [] ch = "2" -> 50

\* A category name is a one-character string; its text is that character.
Text(name) == <<name>>

RECURSIVE Concat(_)
Concat(parts) ==
    IF parts = <<>> THEN <<>> ELSE Head(parts) \o Concat(Tail(parts))

RECURSIVE Join(_, _)
\* Array.prototype.join
Join(parts, sep) ==
    IF parts = <<>> THEN <<>>
    ELSE IF Len(parts) = 1 THEN parts[1]
    ELSE parts[1] \o sep \o Join(Tail(parts), sep)

\* JSON.stringify of a string without characters that need escaping.
JsonString(txt) == <<"\"">> \o txt \o <<"\"">>

RECURSIVE TextLess(_, _)
\* Comparison of two texts by UTF-16 code units (the default Array.sort order).
TextLess(s, t) ==
    IF t = <<>> THEN FALSE
    ELSE IF s = <<>> THEN TRUE
    ELSE IF CharCode(Head(s)) # CharCode(Head(t)) THEN CharCode(Head(s)) < CharCode(Head(t))
    ELSE TextLess(Tail(s), Tail(t))

RECURSIVE InsertSorted(_, _)
InsertSorted(name, sorted) ==
    IF sorted = <<>> THEN <<name>>
    ELSE IF TextLess(Text(Head(sorted)), Text(name))
         THEN <<Head(sorted)>> \o InsertSorted(name, Tail(sorted))
         ELSE <<name>> \o sorted

\* The mistake of hashing the categories in the order given.
SortNamesKeep(names) == names

RECURSIVE SortNames(_)
\* [...categories].sort()
SortNames(names) ==
    IF names = <<>> THEN <<>> ELSE InsertSorted(Head(names), SortNames(Tail(names)))

\* No identifier given (identifier ?? null).
NoIdentifier == <<>>

\* stableStringify({categories: sorted, identifier: identifier ?? null}): the keys
\* "categories" and "identifier" are already in localeCompare order.
StableStringify(sortedNames, identifier) ==
    Concat(<< <<"{">>,
              JsonString(<<"c","a","t","e","g","o","r","i","e","s">>), <<":">>,
              <<"[">>, Join([k \in 1..Len(sortedNames) |-> JsonString(Text(sortedNames[k]))], <<",">>), <<"]">>,
              <<",">>,
              JsonString(<<"i","d","e","n","t","i","f","i","e","r">>), <<":">>,
              IF identifier = NoIdentifier THEN <<"n","u","l","l">> ELSE JsonString(identifier),
              <<"}">> >>)

\* Bit k of a AND bit k of b, at its place.
BitAnd(a, b, k) == ((a \div (2 ^ k)) % 2) * ((b \div (2 ^ k)) % 2) * (2 ^ k)

\* a ^ b for 16-bit values: a + b - 2 * (a & b).
BitXor(a, b) ==
    a + b - 2 * ( BitAnd(a, b, 0) + BitAnd(a, b, 1) + BitAnd(a, b, 2) + BitAnd(a, b, 3)
                + BitAnd(a, b, 4) + BitAnd(a, b, 5) + BitAnd(a, b, 6) + BitAnd(a, b, 7)
                + BitAnd(a, b, 8) + BitAnd(a, b, 9) + BitAnd(a, b, 10) + BitAnd(a, b, 11)
                + BitAnd(a, b, 12) + BitAnd(a, b, 13) + BitAnd(a, b, 14) + BitAnd(a, b, 15) )

\* One round of fnv1a on a 32-bit value kept as <<high 16 bits, low 16 bits>>:
\* h ^= code; h = (h + (h<<1) + (h<<4) + (h<<7) + (h<<8) + (h<<24)) >>> 0.
\* The shifts by 0, 1, 4, 7 and 8 add up to a factor 403 on each half; the
\* shift by 24 moves the low byte of the low half into the high byte of the
\* high half; >>> 0 keeps 32 bits.
FnvRound(code) ==
    [h \in (0..65535) \X (0..65535) |->
        LET lo == BitXor(h[2], code)
            hi == h[1]
            loSum == lo * (1 + 2 + 16 + 128 + 256)
            hiSum == hi * (1 + 2 + 16 + 128 + 256) + (lo % 256) * 256 + (loSum \div 65536)
        IN  <<hiSum % 65536, loSum % 65536>>]

RECURSIVE FnvFold(_, _)
\* The hash value after the first n characters of txt (the loop of fnv1a);
\* 0x811c9dc5 is the offset basis.
FnvFold(txt, n) ==
    IF n = 0 THEN <<33052, 40389>>
    ELSE FnvRound(CharCode(txt[n]))[FnvFold(txt, n - 1)]

HexDigit(d) ==
    <<"0","1","2","3","4","5","6","7","8","9","a","b","c","d","e","f">>[d + 1]

\* Four lower-case hex digits of a 16-bit value, zero padded.
Hex4(v) ==
    <<HexDigit(v \div 4096), HexDigit((v \div 256) % 16), HexDigit((v \div 16) % 16), HexDigit(v % 16)>>

\* fnv1a(str): ('00000000' + h.toString(16)).slice(-8)
Fnv1a(txt) ==
    LET h == FnvFold(txt, Len(txt)) IN Hex4(h[1]) \o Hex4(h[2])

\* hashPolicy(categories, identifier)
HashPolicy(categories, identifier) ==
    Fnv1a(StableStringify(SortNames(categories), identifier))

\* ------------------------------------------------------- values and objects
\* The fixed category.
Necessary == "necessary"

\* JavaScript truthiness (!!v) of a value stored under a choices key.
ToBoolean(v) == IF v \in {"false", "null", "undefined"} THEN "false" ELSE "true"

\* typeof v === 'boolean'
IsBoolean(v) == v \in {"true", "false"}

\* An object is the sequence of its <<key, value>> entries in property order.
Keys(obj) == {obj[k][1] : k \in DOMAIN obj}

HasKey(obj, key) == key \in Keys(obj)

\* obj[key]; "undefined" when the key is absent.
Lookup(obj, key) ==
    IF HasKey(obj, key)
    THEN obj[CHOOSE k \in DOMAIN obj : obj[k][1] = key][2]
    ELSE "undefined"

\* obj[key] = v: an existing property keeps its place, a new one goes last.
Assign(obj, key, v) ==
    IF HasKey(obj, key)
    THEN [k \in DOMAIN obj |-> IF obj[k][1] = key THEN <<key, v>> ELSE obj[k]]
    ELSE Append(obj, <<key, v>>)

RECURSIVE Spread(_, _)
\* { ...base, ...over }
Spread(base, over) ==
    IF over = <<>> THEN base
    ELSE Spread(Assign(base, Head(over)[1], Head(over)[2]), Tail(over))

\* The mapping an object denotes, whatever its property order.
AsMapping(obj) == {<<obj[k][1], obj[k][2]>> : k \in DOMAIN obj}

\* JSON.stringify(x) === JSON.stringify(y) for two objects of booleans: the
\* same properties with the same values in the same order.
SameJson(x, y) == x = y

\* The absent value (null) and a present one.
Null == <<>>
Some(v) == <<v>>

\* ---------------------------------------------------------------- snapshots
\* givenAt texts: an ISO timestamp of instant t, or text that is no date.
IsoString(t) == <<"iso", t>>
NotADate == <<"text", 0>>
\* A field that is missing or not a string / not an object.
NotAString == <<"?">>
NotAStringDate == <<"undefined", 0>>
NotAnObject == << <<"?", "undefined">> >>

\* new Date(givenAt).getTime(); -1 stands for NaN (instants are >= 0).
DateGetTime(givenAt) == IF givenAt[1] = "iso" THEN givenAt[2] ELSE -1

MkSnapshot(policy, givenAt, choices) ==
    [policy |-> policy, givenAt |-> givenAt, choices |-> choices]

\* The mistake of accepting choices of any type.
IsValidSnapshotLax(s) ==
    /\ s.policy # NotAString /\ s.policy # <<>>
    /\ s.givenAt # NotAStringDate
    /\ s.choices # NotAnObject
    /\ DateGetTime(s.givenAt) # -1

\* isValidSnapshot(s), s a decoded object
IsValidSnapshot(s) ==
    /\ s.policy # NotAString /\ s.policy # <<>>
    /\ s.givenAt # NotAStringDate
    /\ s.choices # NotAnObject
    /\ DateGetTime(s.givenAt) # -1
    /\ \A k \in DOMAIN s.choices : IsBoolean(s.choices[k][2])

\* A stored value: the empty string, text that does not decode, or the
\* percent-encoded JSON text of an object.
EmptyDoc == MkSnapshot(<<>>, NotADate, <<>>)
EmptyRaw == [kind |-> "empty", doc |-> EmptyDoc]
GarbageRaw == [kind |-> "garbage", doc |-> EmptyDoc]

\* JSON.stringify leaves out the properties whose value is undefined.
Defined(pr) == pr[2] # "undefined"

\* enc(o) = encodeURIComponent(JSON.stringify(o)), o a snapshot
Enc(o) == [kind |-> "json", doc |-> [o EXCEPT !.choices = SelectSeq(@, Defined)]]

\* dec(s): JSON.parse(decodeURIComponent(s)), null when that throws
Dec(raw) == IF raw.kind = "json" THEN Some(raw.doc) ELSE Null

\* --------------------------------------------------------------- cookies
CookieName == "consentify"

\* buildSetCookieHeader(name, value, opt): the header text by its parts; Domain is
\* Null when the text has no Domain attribute, secure says whether it ends in Secure.
BuildSetCookieHeader(name, value, opt) ==
    [name |-> name, value |-> value, path |-> opt.path, maxAgeSec |-> opt.maxAgeSec,
     sameSite |-> opt.sameSite,
     domain |-> IF opt.domain # Null /\ opt.domain[1] # "" THEN opt.domain ELSE Null,
     secure |-> opt.secure]

\* A Cookie request header is the sequence of its name=value pairs.
\* readCookie(name, cookieStr): the value of the first pair named name.
ReadCookie(name, cookieStr) ==
    IF cookieStr = <<>> THEN Null
    ELSE IF \E k \in DOMAIN cookieStr : cookieStr[k][1] = name
         THEN Some(cookieStr[CHOOSE k \in DOMAIN cookieStr :
                        /\ cookieStr[k][1] = name
                        /\ \A j \in 1..(k - 1) : cookieStr[j][1] # name][2])
         ELSE Null

\* A value read from a store counts only when it is a non-empty string.
Truthy(rawOpt) == rawOpt # Null /\ rawOpt[1].kind # "empty"

\* ------------------------------------------------------------------ state
Inst == {"A", "B"}
Guards == {"G1", "G2"}
\* Callbacks that can be subscribed: a plain listener and the guards' tick closures.
PlainListeners == {"L1", "L2"}
\* The listener that enableConsentMode subscribes.
ConsentModes == {"M1"}
Callbacks == PlainListeners \cup Guards \cup ConsentModes

VARIABLES
    env,          \* the runtime: [localStorage: "ok" | "full" (setItem throws) | "none",
                  \* broadcast: BOOLEAN],
                  \* throwing: the callbacks that throw when called, and
                  \* observe: whether `last` is kept in this behaviour
    now,          \* Date.now(), in ms
    ticks,        \* clock advances so far
    cookie,       \* document.cookie: the value stored under CookieName
    localStore,   \* window.localStorage: the item stored under CookieName
    created,      \* the instances createConsentify has returned
    cfg,          \* init of each instance
    policyHash,   \* policyHash of each instance
    cachedState,  \* cachedState of each instance
    listeners,    \* listeners of each instance
    chan,         \* signals posted to each instance's BroadcastChannel, not yet handled
    guards,       \* the guard() closures: phase and what their callbacks have seen
    dataLayer,    \* window.dataLayer: the gtag commands pushed so far
    unsubs,       \* how many unsubscribe functions subscribe has returned for each
                  \* callback of each instance (followed for SubscribeCall only)
    last          \* the last operation and what it did (observation only)

vars == <<env, now, ticks, cookie, localStore, created, cfg, policyHash,
          cachedState, listeners, chan, guards, dataLayer, unsubs, last>>

\* 24 * 60 * 60 * 1000
MsPerDay == 86400000
\* cookie.maxAgeSec default, 60 * 60 * 24 * 365
DefaultMaxAgeSec == 31536000

\* init.cookie with nothing given; each option is Null or Some(value).
NoCookieOptions ==
    [path |-> Null, maxAgeSec |-> Null, sameSite |-> Null, secure |-> Null, domain |-> Null]

MkConfig(categories, identifier, maxAgeDays, storage) ==
    [categories |-> categories, identifier |-> identifier,
     consentMaxAgeDays |-> maxAgeDays, storage |-> storage, cookie |-> NoCookieOptions]

\* The same init with cookie options.
WithCookie(c, options) == [c EXCEPT !.cookie = options]

\* x ?? d
OrElse(x, d) == IF x = Null THEN d ELSE x[1]

\* cookieCfg
CookieCfg(c) ==
    [path |-> OrElse(c.cookie.path, "/"),
     maxAgeSec |-> OrElse(c.cookie.maxAgeSec, DefaultMaxAgeSec),
     sameSite |-> OrElse(c.cookie.sameSite, "Lax"),
     secure |-> IF OrElse(c.cookie.sameSite, "Lax") = "None" THEN TRUE
                ELSE OrElse(c.cookie.secure, TRUE),
     domain |-> c.cookie.domain]

\* init.policy.identifier ?? hashPolicy(init.policy.categories)
PolicyHashOf(c) ==
    IF c.identifier # NoIdentifier THEN c.identifier ELSE HashPolicy(c.categories, NoIdentifier)

\* storageOrder
StorageOrder(c) == IF Len(c.storage) > 0 THEN c.storage ELSE <<"cookie">>

UnsetState == [decision |-> "unset", snapshot |-> Null]
Decided(s) == [decision |-> "decided", snapshot |-> Some(s)]

\* toISO()
ToISO == IsoString(now)

\* isExpired(givenAt) of instance i; consentMaxAgeDays is Null (not given) or Some(days)
IsExpired(i, givenAt) ==
    LET d == cfg[i].consentMaxAgeDays IN
    IF d = Null \/ d[1] = 0 THEN FALSE
    ELSE IF DateGetTime(givenAt) = -1 THEN TRUE
    ELSE now - DateGetTime(givenAt) > d[1] * MsPerDay

\* allowed
Allowed(i) == {Necessary} \cup {cfg[i].categories[k] : k \in DOMAIN cfg[i].categories}

RECURSIVE DefaultsFrom(_, _)
\* for (const c of categories) base[c] = false
DefaultsFrom(base, categories) ==
    IF categories = <<>> THEN base
    ELSE DefaultsFrom(Assign(base, Head(categories), "false"), Tail(categories))

RECURSIVE Overlay(_, _, _)
\* for ([k, v] of Object.entries(choices)) if (allowed.has(k)) base[k] = !!v
Overlay(base, choices, allowed) ==
    IF choices = <<>> THEN base
    ELSE Overlay(IF Head(choices)[1] \in allowed
                 THEN Assign(base, Head(choices)[1], ToBoolean(Head(choices)[2]))
                 ELSE base,
                 Tail(choices), allowed)

\* The mistake of leaving out the final base.necessary = true.
NormalizeUnforced(i, choices) ==
    Overlay(DefaultsFrom(<< <<Necessary, "true">> >>, cfg[i].categories), choices, Allowed(i))

\* normalize(choices) of instance i
Normalize(i, choices) ==
    Assign(Overlay(DefaultsFrom(<< <<Necessary, "true">> >>, cfg[i].categories), choices, Allowed(i)),
           Necessary, "true")

\* ---------------------------------------------------------- storage helpers
\* canLocal()
CanLocal == env.localStorage \in {"ok", "full"}

\* window.localStorage.setItem throws (quota exceeded).
SetItemThrows == env.localStorage = "full"

\* The two stores as they are now.
Stores == [cookie |-> cookie, localStore |-> localStore]

\* readFromStore(kind) on the stores st = [cookie, localStore]
ReadFromStore(st, kind) ==
    CASE kind = "cookie" -> ReadCookie(CookieName, IF st.cookie.kind = "empty" THEN <<>> ELSE << <<CookieName, st.cookie>> >>)
      [] kind = "localStorage" ->
            IF CanLocal /\ st.localStore.kind # "empty" THEN Some(st.localStore) ELSE Null
      [] OTHER -> Null

\* The store after document.cookie = header: Max-Age=0 deletes the cookie.
JarAfter(header) == IF header.maxAgeSec <= 0 THEN EmptyRaw ELSE header.value

\* writeToStore(kind, value) on the stores st = [cookie, localStore]
WriteToStore(i, st, kind, value) ==
    CASE kind = "cookie" ->
            [st EXCEPT !.cookie = JarAfter(BuildSetCookieHeader(CookieName, value, CookieCfg(cfg[i])))]
      [] kind = "localStorage" ->
            IF CanLocal /\ ~SetItemThrows THEN [st EXCEPT !.localStore = value] ELSE st
      [] OTHER -> st

\* The mistake of a clearing header with the default attributes.
ClearCookieHeaderDefault(i) ==
    BuildSetCookieHeader(CookieName, EmptyRaw,
        [path |-> "/", maxAgeSec |-> 0, sameSite |-> "Lax", secure |-> TRUE, domain |-> Null])

\* clearCookieHeader()
ClearCookieHeader(i) ==
    BuildSetCookieHeader(CookieName, EmptyRaw, [CookieCfg(cfg[i]) EXCEPT !.maxAgeSec = 0])

\* The mistake of a clear that leaves the cookie alone.
ClearStoreLocalOnly(i, st, kind) ==
    IF kind = "localStorage" /\ CanLocal THEN [st EXCEPT !.localStore = EmptyRaw] ELSE st

\* clearStore(kind)
ClearStore(i, st, kind) ==
    CASE kind = "cookie" -> [st EXCEPT !.cookie = JarAfter(ClearCookieHeader(i))]
      [] kind = "localStorage" ->
            IF CanLocal THEN [st EXCEPT !.localStore = EmptyRaw] ELSE st
      [] OTHER -> st

RECURSIVE FirstAvailableIn(_)
FirstAvailableIn(order) ==
    IF order = <<>> THEN "cookie"
    ELSE IF Head(order) = "cookie" THEN "cookie"
    ELSE IF Head(order) = "localStorage" /\ CanLocal THEN "localStorage"
    ELSE FirstAvailableIn(Tail(order))

\* firstAvailableStore()
FirstAvailableStore(i) == FirstAvailableIn(StorageOrder(cfg[i]))

\* The mistake of reading the first store of the order only.
FirstStoreOnly(st, order) ==
    IF order = <<>> THEN Null ELSE ReadFromStore(st, Head(order))

RECURSIVE FirstTruthy(_, _)
FirstTruthy(st, order) ==
    IF order = <<>> THEN Null
    ELSE IF Truthy(ReadFromStore(st, Head(order))) THEN ReadFromStore(st, Head(order))
    ELSE FirstTruthy(st, Tail(order))

\* readClientRaw()
ReadClientRaw(i, st) == FirstTruthy(st, StorageOrder(cfg[i]))

InOrder(i, kind) == \E k \in DOMAIN StorageOrder(cfg[i]) : StorageOrder(cfg[i])[k] = kind

\* The mistake of writing the primary store only.
WriteClientRawPrimary(i, st, value) == WriteToStore(i, st, FirstAvailableStore(i), value)

\* writeClientRaw(value): the stores afterwards
WriteClientRaw(i, st, value) ==
    LET primary == FirstAvailableStore(i)
        st1 == WriteToStore(i, st, primary, value)
    IN  IF primary # "cookie" /\ InOrder(i, "cookie") THEN WriteToStore(i, st1, "cookie", value) ELSE st1

\* The mistake of resolving without the policy check.
ResolveAnyPolicy(i, rawOpt) ==
    LET s == IF Truthy(rawOpt) THEN Dec(rawOpt[1]) ELSE Null IN
    IF s = Null \/ ~IsValidSnapshot(s[1]) THEN Null
    ELSE IF IsExpired(i, s[1].givenAt) THEN Null
    ELSE s

\* The mistake of resolving without the expiry check.
ResolveExpired(i, rawOpt) ==
    LET s == IF Truthy(rawOpt) THEN Dec(rawOpt[1]) ELSE Null IN
    IF s = Null \/ ~IsValidSnapshot(s[1]) THEN Null
    ELSE IF s[1].policy # policyHash[i] THEN Null
    ELSE s

\* The checks shared by readClient and server.get on a raw value read.
Resolve(i, rawOpt) ==
    LET s == IF Truthy(rawOpt) THEN Dec(rawOpt[1]) ELSE Null IN
    IF s = Null \/ ~IsValidSnapshot(s[1]) THEN Null
    ELSE IF s[1].policy # policyHash[i] THEN Null
    ELSE IF IsExpired(i, s[1].givenAt) THEN Null
    ELSE s

\* The mistake of falling through to the next store when a value read does not resolve.
RECURSIVE FirstResolving(_, _, _)
FirstResolving(i, st, order) ==
    IF order = <<>> THEN Null
    ELSE IF Resolve(i, ReadFromStore(st, Head(order))) # Null
         THEN Resolve(i, ReadFromStore(st, Head(order)))
         ELSE FirstResolving(i, st, Tail(order))

ReadClientFallThrough(i, st) == FirstResolving(i, st, StorageOrder(cfg[i]))

\* readClient()
ReadClient(i, st) == Resolve(i, ReadClientRaw(i, st))

\* The decision writeClientIfChanged takes: prev equals next.
SameAsStored(prev, next) ==
    prev # Null /\ prev[1].policy = next.policy /\ SameJson(prev[1].choices, next.choices)

\* ------------------------------------------------------------------ server
\* The mistake of falling back to document.cookie when no header text is given.
ServerGetAmbient(i, cookieHeader) ==
    LET s == Resolve(i, IF cookieHeader # <<>> THEN ReadCookie(CookieName, cookieHeader)
                        ELSE ReadFromStore(Stores, "cookie"))
    IN  IF s = Null THEN UnsetState ELSE Decided(s[1])

\* server.get(cookieHeader)
ServerGet(i, cookieHeader) ==
    LET s == Resolve(i, IF cookieHeader # <<>> THEN ReadCookie(CookieName, cookieHeader) ELSE Null)
    IN  IF s = Null THEN UnsetState ELSE Decided(s[1])

\* The mistake of a server.set that starts from the defaults every time.
ServerSetSnapshotFresh(i, choices, currentCookieHeader) ==
    MkSnapshot(policyHash[i], ToISO, Normalize(i, Spread(Normalize(i, <<>>), choices)))

\* The snapshot server.set(choices, currentCookieHeader) encodes.
ServerSetSnapshot(i, choices, currentCookieHeader) ==
    LET prev == IF currentCookieHeader # <<>> THEN ServerGet(i, currentCookieHeader) ELSE UnsetState
        base == IF prev.decision = "decided" THEN prev.snapshot[1].choices ELSE Normalize(i, <<>>)
    IN  MkSnapshot(policyHash[i], ToISO, Normalize(i, Spread(base, choices)))

\* server.set(choices, currentCookieHeader)
ServerSet(i, choices, currentCookieHeader) ==
    BuildSetCookieHeader(CookieName, Enc(ServerSetSnapshot(i, choices, currentCookieHeader)),
                         CookieCfg(cfg[i]))

\* server.clear()
ServerClear(i) == ClearCookieHeader(i)

\* ------------------------------------------------------------------ client
\* The mistake of looking the fixed category up like any other.
GetCategoryStored(state, category) ==
    IF state.decision = "decided"
    THEN ToBoolean(Lookup(state.snapshot[1].choices, category)) = "true"
    ELSE FALSE

\* The mistake of answering whether the category has a choice at all.
GetCategoryPresent(state, category) ==
    IF category = Necessary THEN TRUE
    ELSE IF state.decision = "decided"
         THEN HasKey(state.snapshot[1].choices, category)
         ELSE FALSE

\* clientGet(category) on a cached state
GetCategory(state, category) ==
    IF category = Necessary THEN TRUE
    ELSE IF state.decision = "decided"
         THEN ToBoolean(Lookup(state.snapshot[1].choices, category)) = "true"
         ELSE FALSE

\* client.get(category) / isGranted(category)
ClientGet(i, category) == GetCategory(cachedState[i], category)

\* The mistake of handing out the cached state.
GetServerSnapshotCached(i) == cachedState[i]

\* client.getServerSnapshot()
GetServerSnapshot(i) == UnsetState

\* syncState(): the cached state after reading the stores st
SyncState(i, st) ==
    LET s == ReadClient(i, st) IN IF s = Null THEN UnsetState ELSE Decided(s[1])

\* The mistake of a get() that reads the stores.
ClientGetStateFresh(i) == SyncState(i, Stores)

\* client.get() without a category
ClientGetState(i) == cachedState[i]

\* writeClientIfChanged(next) on the stores st: whether it wrote, and the stores afterwards
WriteClientIfChanged(i, st, next) ==
    LET same == SameAsStored(ReadClient(i, st), next)
    IN  [changed |-> ~same, st |-> IF same THEN st ELSE WriteClientRaw(i, st, Enc(next))]

\* A guard() closure that has not been made yet. onGrant is what the caller's
\* onGrant does when called: "returns", "throws", "throwsOnce" (its first call
\* throws) or "disposes" (it calls the dispose function guard() returned, then
\* returns); onRevokeThrows is whether the caller's onRevoke throws; returned is
\* whether guard() has returned its dispose function to the caller.
NoGuard ==
    [made |-> FALSE, inst |-> "A", category |-> Necessary, hasRevoke |-> FALSE,
     phase |-> "waiting", grants |-> 0, revokes |-> 0,
     disposed |-> FALSE, onGrant |-> "returns", onRevokeThrows |-> FALSE, returned |-> FALSE]

\* Whether onGrant of closure g throws when called now: also when it wants to
\* call a dispose function that guard() has not returned.
OnGrantThrows(g) ==
    \/ g.onGrant = "throws"
    \/ g.onGrant = "throwsOnce" /\ g.grants = 0
    \/ g.onGrant = "disposes" /\ ~g.returned

\* Whether onGrant of closure g calls the dispose function before it returns.
OnGrantDisposes(g) == g.onGrant = "disposes" /\ g.returned

\* One more call of a callback, counted up to MaxCalls.
Count(n) == IF n < MaxCalls THEN n + 1 ELSE n

\* The mistake of a dispose function that leaves the phase alone.
DisposeGuardKeepsPhase(g) == g

\* The assignment of the dispose function: phase = 'done'
DisposeGuard(g) == [g EXCEPT !.phase = "done"]

\* The mistake of a tick() that never leaves the waiting phase.
GuardTickWaiting(g, state) ==
    IF g.phase = "waiting" /\ GetCategory(state, g.category)
    THEN [g EXCEPT !.grants = Count(@)]
    ELSE g

\* The mistake of a tick() that sets the phase before it calls the callback.
GuardTickPhaseFirst(g, state) ==
    IF g.phase = "waiting" /\ GetCategory(state, g.category)
    THEN [g EXCEPT !.grants = Count(@),
                   !.disposed = @ \/ OnGrantDisposes(g),
                   !.phase = IF g.hasRevoke THEN "granted" ELSE "done"]
    ELSE IF g.phase = "granted" /\ ~GetCategory(state, g.category)
    THEN [g EXCEPT !.revokes = Count(@), !.phase = "done"]
    ELSE g

\* tick() of guard closure g when the cached state is state: onGrant and onRevoke
\* are counted in grants and revokes.
GuardTick(g, state) ==
    IF g.phase = "waiting" /\ GetCategory(state, g.category)
    THEN IF OnGrantThrows(g)
         THEN [g EXCEPT !.grants = Count(@)]
         ELSE [g EXCEPT !.grants = Count(@),
                        !.disposed = @ \/ OnGrantDisposes(g),
                        !.phase = IF g.hasRevoke THEN "granted" ELSE "done"]
    ELSE IF g.phase = "granted" /\ ~GetCategory(state, g.category)
    THEN IF g.onRevokeThrows
         THEN [g EXCEPT !.revokes = Count(@)]
         ELSE [g EXCEPT !.revokes = Count(@), !.phase = "done"]
    ELSE g

\* Whether that tick() threw: the callback it called did.
TickThrows(g, state) ==
    \/ g.phase = "waiting" /\ GetCategory(state, g.category) /\ OnGrantThrows(g)
    \/ g.phase = "granted" /\ ~GetCategory(state, g.category) /\ g.onRevokeThrows

\* The mistake of unsubscribing on revoke only.
TickUnsubscribesOnRevoke(g, state) ==
    g.phase = "granted" /\ ~GetCategory(state, g.category)

\* Whether that tick() called unsub().
TickUnsubscribes(g, state) ==
    \/ /\ g.phase = "waiting" /\ GetCategory(state, g.category) /\ ~OnGrantThrows(g)
       /\ ~g.hasRevoke \/ OnGrantDisposes(g)
    \/ g.phase = "granted" /\ ~GetCategory(state, g.category) /\ ~g.onRevokeThrows

\* options.mapping: the Google consent type of each category (one type each).
ConsentMapping == << <<Necessary, "security_storage">>, <<"a", "analytics_storage">> >>

\* resolve() of enableConsentMode when instance.get() is state: 'granted' or
\* 'denied' for the consent type of every mapped category.
ResolvePayload(state) ==
    [k \in DOMAIN ConsentMapping |->
        <<ConsentMapping[k][2],
          IF ConsentMapping[k][1] = Necessary THEN "granted"
          ELSE IF state.decision = "decided"
                  /\ ToBoolean(Lookup(state.snapshot[1].choices, ConsentMapping[k][1])) = "true"
               THEN "granted"
               ELSE "denied">>]

\* A gtag('consent', kind, payload) call as window.dataLayer records it.
GtagConsent(kind, payload) == <<"consent", kind, payload>>

\* The mistake of a consent mode listener that sends an update whatever the state.
ConsentModeListenerAlways(state) == << GtagConsent("update", ResolvePayload(state)) >>

\* The listener enableConsentMode subscribes, called when instance.get() is
\* state: the gtag calls it makes.
ConsentModeListener(state) ==
    IF state.decision = "decided"
    THEN << GtagConsent("update", ResolvePayload(state)) >>
    ELSE <<>>

NoneFired == [c \in Callbacks |-> 0]

\* The mistake of calling a listener outside try/catch: what it throws goes on.
Uncaught(r) == r

\* try { cb() } catch (err) { console.error(...) }: what cb threw stops here.
TryCatch(r) == [r EXCEPT !.threw = FALSE]

RECURSIVE RunListeners(_, _, _)
\* listeners.forEach(cb => cb()): todo are the callbacks not visited yet, r holds the
\* guards, the listener set, the calls made so far and whether an exception is on
\* its way out. A callback deleted before its turn is not called.
RunListeners(todo, state, r) ==
    IF todo = {} \/ r.threw THEN r
    ELSE LET cb == CHOOSE c \in todo : TRUE
             rest == todo \ {cb}
         IN  IF cb \notin r.subs THEN RunListeners(rest, state, r)
             ELSE IF cb \in Guards
             THEN RunListeners(rest, state,
                    TryCatch([guards |-> [r.guards EXCEPT ![cb] = GuardTick(@, state)],
                              subs |-> IF TickUnsubscribes(r.guards[cb], state)
                                       THEN r.subs \ {cb} ELSE r.subs,
                              fired |-> [r.fired EXCEPT ![cb] = @ + 1],
                              sent |-> r.sent,
                              threw |-> TickThrows(r.guards[cb], state)]))
             ELSE IF cb \in ConsentModes
             THEN RunListeners(rest, state,
                    TryCatch([r EXCEPT !.fired[cb] = @ + 1,
                                       !.sent = @ \o ConsentModeListener(state)]))
             ELSE RunListeners(rest, state,
                    TryCatch([r EXCEPT !.fired[cb] = @ + 1, !.threw = cb \in env.throwing]))

\* notifyListeners() of instance i with cached state `state`
NotifyListeners(i, state) ==
    RunListeners(listeners[i], state,
                 [guards |-> guards, subs |-> listeners[i], fired |-> NoneFired, sent |-> <<>>,
                  threw |-> FALSE])

\* The mistake of a channel that echoes to its sender.
PostTargetsEcho(i) == IF env.broadcast THEN created ELSE {}

\* The BroadcastChannel objects a postMessage of instance i reaches: every other
\* open channel of the same name.
PostTargets(i) == IF env.broadcast THEN created \ {i} ELSE {}

\* bc?.postMessage(null)
PostMessage(i) == [j \in Inst |-> IF j \in PostTargets(i) THEN chan[j] + 1 ELSE chan[j]]

\* How many signals that postMessage put on each channel.
Posted(i) == [j \in Inst |-> PostMessage(i)[j] - chan[j]]

\* The signals a set or clear posted whose notification pass ended as r.
PostedAfter(i, r) == IF r.threw THEN [j \in Inst |-> 0] ELSE Posted(i)

NonePosted == [j \in Inst |-> 0]

CanPost(i) == \A j \in PostTargets(i) : chan[j] < MaxPending

\* window.dataLayer is followed up to MaxSent commands.
CanSend == Len(dataLayer) < MaxSent

Unobserved ==
    [op |-> "-", inst |-> "A", arg |-> <<>>, fresh |-> Null, next |-> Null, writes |-> 0,
     subs |-> {}, fired |-> NoneFired, posted |-> NonePosted]

Observed(op, i, arg, fresh, next, writes, subs, fired, posted) ==
    IF env.observe
    THEN [op |-> op, inst |-> i, arg |-> arg, fresh |-> fresh, next |-> next, writes |-> writes,
          subs |-> subs, fired |-> fired, posted |-> posted]
    ELSE Unobserved

Quiet(op, i) == Observed(op, i, <<>>, Null, Null, 0, {}, NoneFired, NonePosted)

\* The mistake of notifying before the cache is synced: the listeners see the
\* state cached before the write.
NotifySyncPost(i, st) ==
    LET r == NotifyListeners(i, cachedState[i]) IN
    /\ cookie' = st.cookie
    /\ localStore' = st.localStore
    /\ cachedState' = [cachedState EXCEPT ![i] = SyncState(i, st)]
    /\ guards' = r.guards
    /\ listeners' = [listeners EXCEPT ![i] = r.subs]
    /\ dataLayer' = dataLayer \o r.sent
    /\ chan' = IF r.threw THEN chan ELSE PostMessage(i)

\* The part of a local change after the write: syncState(); notifyListeners(); bc?.postMessage(null)
SyncNotifyPost(i, st) ==
    LET r == NotifyListeners(i, SyncState(i, st)) IN
    /\ cookie' = st.cookie
    /\ localStore' = st.localStore
    /\ cachedState' = [cachedState EXCEPT ![i] = SyncState(i, st)]
    /\ guards' = r.guards
    /\ listeners' = [listeners EXCEPT ![i] = r.subs]
    /\ dataLayer' = dataLayer \o r.sent
    /\ chan' = IF r.threw THEN chan ELSE PostMessage(i)

\* createConsentify(init) in a browser: the cache is synced and the channel opened.
Create(i) ==
    /\ i \notin created
    /\ created' = created \cup {i}
    /\ cachedState' = [cachedState EXCEPT ![i] = SyncState(i, Stores)]
    /\ last' = Quiet("create", i)
    /\ UNCHANGED <<env, unsubs, dataLayer, now, ticks, cookie, localStore, cfg, policyHash, listeners, chan, guards>>

\* The mistake of merging into the cached snapshot.
FreshFromCache(i) == cachedState[i].snapshot

\* client.set: const fresh = readClient()
Fresh(i) == ReadClient(i, Stores)

\* client.set(choices)
ClientSet(i, choices) ==
    /\ i \in created
    /\ LET fresh == Fresh(i)
           base == IF fresh # Null THEN fresh[1].choices ELSE Normalize(i, <<>>)
           next == MkSnapshot(policyHash[i], ToISO, Normalize(i, Spread(base, choices)))
           w == WriteClientIfChanged(i, Stores, next)
       IN  IF w.changed
           THEN /\ CanPost(i) /\ CanSend
                /\ SyncNotifyPost(i, w.st)
                /\ last' = Observed("set", i, choices, fresh, Some(next), 1, listeners[i],
                                    NotifyListeners(i, SyncState(i, w.st)).fired,
                                    PostedAfter(i, NotifyListeners(i, SyncState(i, w.st))))
           ELSE /\ last' = Observed("set", i, choices, fresh, Some(next), 0, listeners[i], NoneFired, NonePosted)
                /\ UNCHANGED <<cookie, localStore, cachedState, guards, listeners, chan, dataLayer>>
    /\ UNCHANGED <<env, unsubs, now, ticks, created, cfg, policyHash>>

RECURSIVE ClearAll(_, _, _)
ClearAll(i, st, kinds) ==
    IF kinds = <<>> THEN st ELSE ClearAll(i, ClearStore(i, st, Head(kinds)), Tail(kinds))

\* client.clear()
ClientClear(i) ==
    /\ i \in created
    /\ CanPost(i) /\ CanSend
    /\ LET st == ClearAll(i, Stores, StorageOrder(cfg[i]) \o <<"cookie">>) IN
       /\ SyncNotifyPost(i, st)
       /\ last' = Observed("clear", i, <<>>, ReadClient(i, Stores), Null, 1, listeners[i],
                           NotifyListeners(i, SyncState(i, st)).fired,
                           PostedAfter(i, NotifyListeners(i, SyncState(i, st))))
    /\ UNCHANGED <<env, unsubs, now, ticks, created, cfg, policyHash>>

\* The mistake of a message handler that notifies before it re-syncs the cache.
DeliverNotifyFirst(i) ==
    /\ i \in created
    /\ chan[i] > 0 /\ CanSend
    /\ LET r == NotifyListeners(i, cachedState[i]) IN
       /\ cachedState' = [cachedState EXCEPT ![i] = SyncState(i, Stores)]
       /\ guards' = r.guards
       /\ listeners' = [listeners EXCEPT ![i] = r.subs]
       /\ dataLayer' = dataLayer \o r.sent
       /\ last' = Observed("message", i, <<>>, Null, Null, 0, listeners[i], r.fired, NonePosted)
    /\ chan' = [chan EXCEPT ![i] = @ - 1]
    /\ UNCHANGED <<env, unsubs, now, ticks, cookie, localStore, created, cfg, policyHash>>

\* The mistake of a message handler that passes the signal on.
DeliverEcho(i) ==
    /\ i \in created
    /\ chan[i] > 0 /\ CanSend
    /\ CanPost(i)
    /\ LET r == NotifyListeners(i, SyncState(i, Stores)) IN
       /\ cachedState' = [cachedState EXCEPT ![i] = SyncState(i, Stores)]
       /\ guards' = r.guards
       /\ listeners' = [listeners EXCEPT ![i] = r.subs]
       /\ dataLayer' = dataLayer \o r.sent
       /\ last' = Observed("message", i, <<>>, Null, Null, 0, listeners[i], r.fired, Posted(i))
    /\ chan' = [j \in Inst |-> IF j = i THEN chan[j] - 1 ELSE PostMessage(i)[j]]
    /\ UNCHANGED <<env, unsubs, now, ticks, cookie, localStore, created, cfg, policyHash>>

\* bc.onmessage: syncState(); notifyListeners()
Deliver(i) ==
    /\ i \in created
    /\ chan[i] > 0 /\ CanSend
    /\ LET r == NotifyListeners(i, SyncState(i, Stores)) IN
       /\ cachedState' = [cachedState EXCEPT ![i] = SyncState(i, Stores)]
       /\ guards' = r.guards
       /\ listeners' = [listeners EXCEPT ![i] = r.subs]
       /\ dataLayer' = dataLayer \o r.sent
       /\ last' = Observed("message", i, <<>>, Null, Null, 0, listeners[i], r.fired, NonePosted)
    /\ chan' = [chan EXCEPT ![i] = @ - 1]
    /\ UNCHANGED <<env, unsubs, now, ticks, cookie, localStore, created, cfg, policyHash>>

\* client.subscribe(callback)
Subscribe(i, cb) ==
    /\ i \in created
    /\ cb \notin listeners[i]
    /\ listeners' = [listeners EXCEPT ![i] = @ \cup {cb}]
    /\ last' = Quiet("subscribe", i)
    /\ UNCHANGED <<env, unsubs, dataLayer, now, ticks, cookie, localStore, created, cfg, policyHash, cachedState, chan, guards>>

\* The mistake of an unsubscribe function that empties the listener set.
UnsubscribeAll(i, cb) ==
    /\ i \in created
    /\ cb \in listeners[i]
    /\ listeners' = [listeners EXCEPT ![i] = {}]
    /\ last' = Quiet("unsubscribe", i)
    /\ UNCHANGED <<env, unsubs, dataLayer, now, ticks, cookie, localStore, created, cfg, policyHash, cachedState, chan, guards>>

\* The function subscribe returned: listeners.delete(callback)
Unsubscribe(i, cb) ==
    /\ i \in created
    /\ cb \in listeners[i]
    /\ listeners' = [listeners EXCEPT ![i] = @ \ {cb}]
    /\ last' = Quiet("unsubscribe", i)
    /\ UNCHANGED <<env, unsubs, dataLayer, now, ticks, cookie, localStore, created, cfg, policyHash, cachedState, chan, guards>>

\* client.subscribe(callback), whether or not the callback is subscribed already:
\* listeners.add(callback), and one more unsubscribe function in the caller's hands.
SubscribeCall(i, cb) ==
    /\ i \in created
    /\ unsubs[i][cb] < MaxCalls
    /\ listeners' = [listeners EXCEPT ![i] = @ \cup {cb}]
    /\ unsubs' = [unsubs EXCEPT ![i][cb] = @ + 1]
    /\ last' = Observed("subscribe", i, << <<cb, unsubs[i][cb] + 1>> >>, Null, Null, 0, listeners[i],
                        NoneFired, NonePosted)
    /\ UNCHANGED <<env, dataLayer, now, ticks, cookie, localStore, created, cfg, policyHash, cachedState, chan, guards>>

\* The mistake of an unsubscribe function that removes only the registration it
\* was returned for: the latest one of the callback.
DeleteOwnRegistration(i, cb, n) ==
    IF n = unsubs[i][cb] THEN listeners[i] \ {cb} ELSE listeners[i]

\* listeners.delete(callback) by the n-th unsubscribe function returned for cb
DeleteListener(i, cb, n) == listeners[i] \ {cb}

\* A call of the n-th unsubscribe function that subscribe returned for cb
UnsubscribeCall(i, cb, n) ==
    /\ i \in created
    /\ n <= unsubs[i][cb]
    /\ listeners' = [listeners EXCEPT ![i] = DeleteListener(i, cb, n)]
    /\ last' = Observed("unsubscribe", i, << <<cb, n>> >>, Null, Null, 0, listeners[i],
                        NoneFired, NonePosted)
    /\ UNCHANGED <<env, dataLayer, unsubs, now, ticks, cookie, localStore, created, cfg, policyHash, cachedState, chan, guards>>

\* A call of client.get(category) or isGranted(category)
ClientGetCall(i, category) ==
    /\ i \in created
    /\ last' = Observed("get", i, <<category>>, Null, Some(ClientGet(i, category)), 0, {},
                        NoneFired, NonePosted)
    /\ UNCHANGED <<env, unsubs, dataLayer, now, ticks, cookie, localStore, created, cfg, policyHash, cachedState,
                   listeners, chan, guards>>

\* A call of client.get()
ClientGetStateCall(i) ==
    /\ i \in created
    /\ last' = Observed("get()", i, <<>>, Null, Some(ClientGetState(i)), 0, {}, NoneFired, NonePosted)
    /\ UNCHANGED <<env, unsubs, dataLayer, now, ticks, cookie, localStore, created, cfg, policyHash, cachedState,
                   listeners, chan, guards>>

\* A call of client.getServerSnapshot()
GetServerSnapshotCall(i) ==
    /\ i \in created
    /\ last' = Observed("getServerSnapshot", i, <<>>, Null, Some(GetServerSnapshot(i)), 0, {},
                        NoneFired, NonePosted)
    /\ UNCHANGED <<env, unsubs, dataLayer, now, ticks, cookie, localStore, created, cfg, policyHash, cachedState,
                   listeners, chan, guards>>

\* client.guard(category, onGrant, onRevoke?): subscribe(tick); tick(); the
\* dispose function is returned unless that first tick() threw.
GuardCall(i, g, category, hasRevoke, onGrant, onRevokeThrows) ==
    /\ i \in created
    /\ ~guards[g].made
    /\ LET g0 == [NoGuard EXCEPT !.made = TRUE, !.inst = i, !.category = category, !.hasRevoke = hasRevoke,
                                 !.onGrant = onGrant, !.onRevokeThrows = onRevokeThrows]
       IN  /\ guards' = [guards EXCEPT ![g] = [GuardTick(g0, cachedState[i])
                                                 EXCEPT !.returned = ~TickThrows(g0, cachedState[i])]]
           /\ listeners' = [listeners EXCEPT ![i] =
                   IF TickUnsubscribes(g0, cachedState[i]) THEN @ \ {g} ELSE @ \cup {g}]
    /\ last' = Quiet("guard", i)
    /\ UNCHANGED <<env, unsubs, dataLayer, now, ticks, cookie, localStore, created, cfg, policyHash, cachedState, chan>>

\* client.guard with callbacks that return normally.
Guard(i, g, category, hasRevoke) == GuardCall(i, g, category, hasRevoke, "returns", FALSE)

\* The dispose function guard returned: phase = 'done'; unsub()
Dispose(g) ==
    /\ guards[g].made /\ guards[g].returned
    /\ guards' = [guards EXCEPT ![g] = [DisposeGuard(@) EXCEPT !.disposed = TRUE]]
    /\ listeners' = [listeners EXCEPT ![guards[g].inst] = @ \ {g}]
    /\ last' = Quiet("dispose", guards[g].inst)
    /\ UNCHANGED <<env, unsubs, dataLayer, now, ticks, cookie, localStore, created, cfg, policyHash, cachedState, chan>>

\* enableConsentMode(instance, options) in a browser, without or with
\* options.waitForUpdate: the default command, an update if instance.get() is
\* decided, and the subscription of the listener.
EnableConsentMode(i, waitForUpdate) ==
    /\ i \in created
    /\ dataLayer = <<>>
    /\ LET state == ClientGetState(i)
           defaultPayload == IF waitForUpdate = Null THEN ResolvePayload(state)
                             ELSE Append(ResolvePayload(state), <<"wait_for_update", waitForUpdate[1]>>)
       IN  dataLayer' = << GtagConsent("default", defaultPayload) >>
                            \o (IF state.decision = "decided"
                                THEN << GtagConsent("update", ResolvePayload(state)) >>
                                ELSE <<>>)
    /\ listeners' = [listeners EXCEPT ![i] = @ \cup {"M1"}]
    /\ last' = Quiet("enableConsentMode", i)
    /\ UNCHANGED <<env, unsubs, now, ticks, cookie, localStore, created, cfg, policyHash, cachedState, chan, guards>>

\* The Cookie header a request from this browser carries: the stored cookie, if
\* any, between two cookies of other names.
RequestHeader ==
    << <<"theme", GarbageRaw>> >>
        \o (IF cookie.kind = "empty" THEN <<>> ELSE << <<CookieName, cookie>> >>)
        \o << <<"lang", GarbageRaw>> >>

\* server.set(choices, currentCookieHeader); with stored, the browser receives the
\* header in a response and stores the cookie (no instance is told).
ServerSetCall(i, choices, withHeader, stored) ==
    /\ LET h == IF withHeader THEN RequestHeader ELSE <<>> IN
       /\ last' = Observed("server.set", i, choices, ServerGet(i, h).snapshot,
                           Dec(ServerSet(i, choices, h).value), 0, {}, NoneFired, NonePosted)
       /\ cookie' = IF stored THEN JarAfter(ServerSet(i, choices, h)) ELSE cookie
    /\ UNCHANGED <<env, unsubs, dataLayer, now, ticks, localStore, created, cfg, policyHash, cachedState, listeners, chan, guards>>

\* hashPolicy(categories, identifier) called with the policy of init i; the call
\* before it, if any, is kept for comparison.
HashPolicyCall(i) ==
    /\ created = {}
    /\ last' = Observed("hashPolicy", i, <<cfg[i].categories, cfg[i].identifier>>,
                        IF last.op = "hashPolicy" THEN last.next ELSE Null,
                        Some(HashPolicy(cfg[i].categories, cfg[i].identifier)),
                        0, {}, NoneFired, NonePosted)
    /\ UNCHANGED <<env, unsubs, dataLayer, now, ticks, cookie, localStore, created, cfg, policyHash, cachedState,
                   listeners, chan, guards>>

\* server.get(cookieHeader), cookieHeader empty (or null) or what the browser sends
ServerGetCall(i, withHeader) ==
    /\ LET h == IF withHeader THEN RequestHeader ELSE <<>> IN
       last' = Observed("server.get", i, h, ServerGet(i, h).snapshot, Null, 0, {}, NoneFired, NonePosted)
    /\ UNCHANGED <<env, unsubs, dataLayer, now, ticks, cookie, localStore, created, cfg, policyHash, cachedState,
                   listeners, chan, guards>>

\* flatClear(serverMode) with a string argument
FlatClear(i, serverMode) == ServerClear(i)

\* server.clear(), or clear(text) of the flat API with the empty text or the
\* request's Cookie header; with stored, the browser receives the header in a response.
ServerClearCall(i, flat, withHeader, stored) ==
    /\ LET text == IF flat /\ withHeader THEN RequestHeader ELSE <<>>
           header == IF flat THEN FlatClear(i, text) ELSE ServerClear(i) IN
       /\ last' = Observed(IF flat THEN "clear(text)" ELSE "server.clear", i, text, Null,
                           Some(header), 0, {}, NoneFired, NonePosted)
       /\ cookie' = IF stored THEN JarAfter(header) ELSE cookie
    /\ UNCHANGED <<env, unsubs, dataLayer, now, ticks, localStore, created, cfg, policyHash, cachedState,
                   listeners, chan, guards>>

\* Time passes.
Tick(ms) ==
    /\ ticks < MaxTicks
    /\ now' = now + ms
    /\ ticks' = ticks + 1
    /\ last' = Quiet("tick", "A")
    /\ UNCHANGED <<env, unsubs, dataLayer, cookie, localStore, created, cfg, policyHash, cachedState, listeners, chan, guards>>

\* ----------------------------------------------------------- specifications
\* Initial states: nothing constructed yet; the instances' init objects are one
\* of inits, what the browser already stores is one of cookies.
InitIn(runtimes, inits, cookies, locals) ==
    /\ env \in runtimes
    /\ now = 0
    /\ ticks = 0
    /\ cookie \in cookies
    /\ localStore \in locals
    /\ created = {}
    /\ cfg \in inits
    /\ policyHash = [i \in Inst |-> PolicyHashOf(cfg[i])]
    /\ cachedState = [i \in Inst |-> UnsetState]
    /\ listeners = [i \in Inst |-> {}]
    /\ chan = [i \in Inst |-> 0]
    /\ guards = [g \in Guards |-> NoGuard]
    /\ dataLayer = <<>>
    /\ unsubs = [i \in Inst |-> [cb \in PlainListeners |-> 0]]
    /\ last = Quiet("init", "A")

\* A browser with a working localStorage and a BroadcastChannel.
Browser(throwing, observe) ==
    [localStorage |-> "ok", broadcast |-> TRUE, observe |-> observe, throwing |-> throwing]

\* The same in a browser where everything works; the callbacks that throw are one
\* of throwers.
InitFrom(inits, cookies, locals, throwers, observe) ==
    InitIn({Browser(t, observe) : t \in throwers}, inits, cookies, locals)

\* The same with an empty localStorage.
InitWith(inits, cookies, observe) == InitFrom(inits, cookies, {EmptyRaw}, {{}}, observe)

\* Construction, set and clear on the instances in tabs.
LocalNext(tabs, args) ==
    \/ \E i \in tabs : Create(i)
    \/ \E i \in tabs, p \in args : ClientSet(i, p)
    \/ \E i \in tabs : ClientClear(i)

\* Handling of broadcast signals.
DeliverNext == \E i \in Inst : Deliver(i)

\* Subscriptions of plain listeners on the instances in tabs.
ListenerNext(tabs, cbs) ==
    \/ \E i \in tabs, cb \in cbs : Subscribe(i, cb)
    \/ \E i \in tabs, cb \in cbs : Unsubscribe(i, cb)

\* The guard operations on the instances in tabs.
GuardNext(tabs) ==
    \/ \E i \in tabs, g \in Guards, c \in {Necessary, "a"}, r \in BOOLEAN : Guard(i, g, c, r)
    \/ \E g \in Guards : Dispose(g)

\* One declared category, default storage, no re-consent window.
OneCategory == MkConfig(<<"a">>, NoIdentifier, Null, <<>>)

\* Arguments of set: partial choices, also with the fixed category, an undeclared
\* key and a value that is no boolean.
SetArgs == { << <<"a", "true">> >>, << <<"a", "false">> >>,
             << <<Necessary, "false">>, <<"x", "yes">> >> }

\* In some behaviours the callback L1 throws whenever it is called.
Init == InitFrom({[i \in Inst |-> OneCategory]}, {EmptyRaw}, {EmptyRaw}, {{}, {"L1"}}, TRUE)

Next == LocalNext(Inst, SetArgs) \/ DeliverNext \/ ListenerNext(Inst, PlainListeners)

\* Two tabs of one site: two instances of the same policy on one cookie jar and
\* one broadcast channel, with a listener each; every operation is observed.
Spec == Init /\ [][Next]_vars

InitGuard == InitWith({[i \in Inst |-> OneCategory]}, {EmptyRaw}, FALSE)

NextGuard ==
    LocalNext(Inst, SetArgs) \/ DeliverNext \/ ListenerNext({"A"}, {"L1"}) \/ GuardNext({"A"})

\* The same two tabs, with guards and a listener on tab A (the tabs are alike, so
\* which one is watched does not matter); tab B is the remote writer.
SpecGuard == InitGuard /\ [][NextGuard]_vars

\* Policies: categories in either order, a category added, and the same with an
\* identifier supplied.
PolicyConfigs ==
    { MkConfig(<<"a">>, NoIdentifier, Null, <<>>),
      MkConfig(<<"a", "b">>, NoIdentifier, Null, <<>>),
      MkConfig(<<"b", "a">>, NoIdentifier, Null, <<>>),
      MkConfig(<<"a">>, <<"v", "1">>, Null, <<>>),
      MkConfig(<<"a", "b">>, <<"v", "1">>, Null, <<>>) }

PolicyArgs == SetArgs \cup { << <<"b", "true">> >> }

ServerArgs == { << <<"b", "true">> >>, << <<Necessary, "false">>, <<"x", "yes">> >> }

InitPolicy == InitWith([Inst -> PolicyConfigs], {EmptyRaw}, TRUE)

NextPolicy ==
    \/ LocalNext(Inst, PolicyArgs)
    \/ DeliverNext
    \/ \E i \in Inst, p \in ServerArgs, h \in BOOLEAN : ServerSetCall(i, p, h, FALSE)

\* Two instances with any two of these policies on one cookie jar; the server
\* facade of each is called with the jar's cookie.
SpecPolicy == InitPolicy /\ [][NextPolicy]_vars

\* Re-consent windows: none, 0 days, 1 day.
ExpiryConfigs ==
    { MkConfig(<<"a">>, NoIdentifier, Null, <<>>),
      MkConfig(<<"a">>, NoIdentifier, Some(0), <<>>),
      MkConfig(<<"a">>, NoIdentifier, Some(1), <<>>) }

\* A stored snapshot of the one-category policy whose givenAt is no date.
UndatedCookie ==
    Enc(MkSnapshot(HashPolicy(<<"a">>, NoIdentifier), NotADate,
                   << <<Necessary, "true">>, <<"a", "true">> >>))

InitExpiry ==
    InitWith({[i \in Inst |-> c] : c \in ExpiryConfigs}, {EmptyRaw, UndatedCookie}, FALSE)

NextExpiry ==
    \/ LocalNext({"A"}, SetArgs)
    \/ \E ms \in {1, MsPerDay} : Tick(ms)

\* One tab whose clock advances by a millisecond or a day at a time.
SpecExpiry == InitExpiry /\ [][NextExpiry]_vars

\* Server-side policies: hashed, and two with the identifier v1, one of them with
\* a re-consent window of a day, with cookie options of every kind (SameSite=None
\* with secure: false, an empty domain).
ServerConfigs ==
    { MkConfig(<<"a", "b">>, NoIdentifier, Null, <<>>),
      WithCookie(MkConfig(<<"a">>, <<"v", "1">>, Some(1), <<>>),
                 [path |-> Some("/app"), maxAgeSec |-> Some(3600), sameSite |-> Some("None"),
                  secure |-> Some(FALSE), domain |-> Some(".example.com")]),
      WithCookie(MkConfig(<<"a", "b">>, <<"v", "1">>, Null, <<>>),
                 [NoCookieOptions EXCEPT !.secure = Some(FALSE), !.domain = Some("")]) }

\* JSON text of a number: every field of the decoded value reads as undefined.
ScalarDoc == MkSnapshot(NotAString, NotAStringDate, NotAnObject)

GrantsA == << <<Necessary, "true">>, <<"a", "true">> >>

\* What the browser may hold to begin with: nothing, text that does not decode,
\* JSON that is no snapshot (a number, a missing field, an empty policy, a givenAt
\* that is no date, a choice that is no boolean), and a well-formed snapshot of
\* a policy no instance has.
ServerCookies ==
    { EmptyRaw, GarbageRaw,
      [kind |-> "json", doc |-> ScalarDoc],
      [kind |-> "json", doc |-> MkSnapshot(NotAString, IsoString(0), GrantsA)],
      [kind |-> "json", doc |-> MkSnapshot(<<>>, IsoString(0), GrantsA)],
      [kind |-> "json", doc |-> MkSnapshot(<<"v", "1">>, NotADate, GrantsA)],
      [kind |-> "json", doc |-> MkSnapshot(<<"v", "1">>, IsoString(0), NotAnObject)],
      [kind |-> "json", doc |-> MkSnapshot(<<"v", "1">>, IsoString(0),
                                           << <<Necessary, "true">>, <<"a", "yes">> >>)],
      [kind |-> "json", doc |-> MkSnapshot(<<"v", "0">>, IsoString(0), GrantsA)] }

\* Arguments of server.set: with values that are no booleans.
ServerSetArgs ==
    { << <<"b", "true">> >>, << <<"a", "false">> >>,
      << <<Necessary, "false">>, <<"x", "yes">> >>,
      << <<"a", "yes">>, <<"b", "undefined">> >> }

InitServer == InitWith([Inst -> ServerConfigs], ServerCookies, TRUE)

NextServer ==
    \/ \E i \in Inst, p \in ServerSetArgs, h \in BOOLEAN : ServerSetCall(i, p, h, TRUE)
    \/ \E i \in Inst, h \in BOOLEAN : ServerGetCall(i, h)
    \/ \E i \in Inst, flat \in BOOLEAN, h \in BOOLEAN : ServerClearCall(i, flat, h, TRUE)
    \/ \E ms \in {MsPerDay + 1} : Tick(ms)

\* The server facade of two instances behind one browser: each response's
\* Set-Cookie header is stored by the browser and sent back with later requests.
SpecServer == InitServer /\ [][NextServer]_vars

\* One category under every storage order.
StorageConfigs ==
    { MkConfig(<<"a">>, NoIdentifier, Null, order) :
        order \in { <<>>, <<"localStorage", "cookie">>, <<"localStorage">>,
                    <<"cookie", "localStorage">> } }

\* A snapshot of the one-category policy that an earlier visit left in localStorage.
LeftLocal == Enc(MkSnapshot(HashPolicy(<<"a">>, NoIdentifier), IsoString(0), GrantsA))

InitStorage == InitFrom([Inst -> StorageConfigs], {EmptyRaw}, {EmptyRaw, LeftLocal}, {{}}, TRUE)

NextStorage == LocalNext(Inst, SetArgs) \/ DeliverNext

\* Two instances of one policy, each with a storage order of its own, on one
\* cookie jar and one localStorage.
SpecStorage == InitStorage /\ [][NextStorage]_vars

\* The reads of the client API on the instances in tabs: get of the fixed
\* category, of a declared one and of one that is not declared.
ReadNext(tabs) ==
    \/ \E i \in tabs, c \in {Necessary, "a", "x"} : ClientGetCall(i, c)
    \/ \E i \in tabs : ClientGetStateCall(i)
    \/ \E i \in tabs : GetServerSnapshotCall(i)

NextRead == LocalNext(Inst, SetArgs) \/ DeliverNext \/ ReadNext(Inst)

\* Two tabs of one site whose reads are observed between their writes.
SpecRead == Init /\ [][NextRead]_vars

\* The lists of distinct names out of a, b, c.
CategoryLists ==
    {<<>>} \cup {ls \in UNION {[1..n -> {"a", "b", "c"}] : n \in 1..3} :
                    \A j, k \in DOMAIN ls : j # k => ls[j] # ls[k]}

\* Two inits whose category lists are permutations of each other, with the same
\* identifier or none.
PermutedInits ==
    { [i \in Inst |-> MkConfig(IF i = "A" THEN s1 ELSE s2, id, Null, <<>>)] :
        <<s1, s2, id>> \in
            { t \in CategoryLists \X CategoryLists \X {NoIdentifier, <<"v", "1">>} :
                 /\ Len(t[1]) = Len(t[2])
                 /\ {t[1][k] : k \in DOMAIN t[1]} = {t[2][k] : k \in DOMAIN t[2]} } }

InitHash == InitWith(PermutedInits, {EmptyRaw}, TRUE)

NextHash ==
    \/ \E i \in Inst : HashPolicyCall(i)
    \/ LocalNext(Inst, { << <<"a", "true">> >> })

\* hashPolicy on two permutations of one list, and two instances made from them
\* on one cookie jar.
SpecHash == InitHash /\ [][NextHash]_vars

\* Instances of storage order localStorage, cookie: one category, the same with a
\* re-consent window of a day, and two categories under an identifier.
MirrorConfigs ==
    { MkConfig(<<"a">>, NoIdentifier, Null, <<"localStorage", "cookie">>),
      MkConfig(<<"a">>, NoIdentifier, Some(1), <<"localStorage", "cookie">>),
      MkConfig(<<"a", "b">>, <<"v", "1">>, Null, <<"localStorage", "cookie">>) }

InitMirror == InitFrom([Inst -> MirrorConfigs], {EmptyRaw}, {EmptyRaw}, {{}}, TRUE)

MirrorArgs == { << <<"a", "true">> >>, << <<"a", "false">> >>, << <<"b", "true">> >> }

NextMirror ==
    \/ LocalNext(Inst, MirrorArgs)
    \/ DeliverNext
    \/ \E ms \in {MsPerDay + 1} : Tick(ms)

\* Two instances that mirror localStorage into the cookie, starting from empty
\* storage; both backends work.
SpecMirror == InitMirror /\ [][NextMirror]_vars

\* A snapshot of the one-category policy in which a is denied.
DeniesA ==
    Enc(MkSnapshot(HashPolicy(<<"a">>, NoIdentifier), IsoString(0),
                   << <<Necessary, "true">>, <<"a", "false">> >>))

\* A well-formed snapshot of a policy the instance does not have.
ForeignRaw == Enc(MkSnapshot(<<"v", "0">>, IsoString(0), GrantsA))

\* Browsers whose localStorage works, whose localStorage can be read and cleared
\* while setItem throws, and that have no localStorage.
FallbackRuntimes ==
    { [Browser({}, TRUE) EXCEPT !.localStorage = s] : s \in {"ok", "full", "none"} }

InitFallback ==
    InitIn(FallbackRuntimes,
           {[i \in Inst |-> MkConfig(<<"a">>, NoIdentifier, Null, <<"localStorage", "cookie">>)]},
           {EmptyRaw, DeniesA},
           {EmptyRaw, GarbageRaw, ForeignRaw, LeftLocal, DeniesA})

NextFallback == LocalNext({"A"}, SetArgs)

\* One instance of storage order localStorage, cookie in a browser whose
\* localStorage may refuse writes, on whatever an earlier visit left behind.
SpecFallback == InitFallback /\ [][NextFallback]_vars

\* A stored snapshot of the one-category policy with the given choices.
StoredWith(choices) == Enc(MkSnapshot(HashPolicy(<<"a">>, NoIdentifier), IsoString(0), choices))

\* What the browser may hold that no set of this policy wrote: snapshots of the
\* policy, with a valid date and boolean choices, in which necessary is false, a
\* key is not declared, or the declared category is missing.
EditedCookies ==
    { StoredWith(<< <<Necessary, "false">>, <<"a", "true">> >>),
      StoredWith(<< <<Necessary, "true">>, <<"a", "true">>, <<"x", "true">> >>),
      StoredWith(<< <<Necessary, "true">> >>) }

InitStored ==
    InitWith({[i \in Inst |-> OneCategory]}, {EmptyRaw, LeftLocal} \cup EditedCookies, TRUE)

NextStored ==
    \/ LocalNext(Inst, SetArgs)
    \/ DeliverNext
    \/ \E i \in Inst, h \in BOOLEAN : ServerGetCall(i, h)

\* Two instances of one policy and their server facade on a cookie that an
\* earlier version, another program or the user may have written.
SpecStored == InitStored /\ [][NextStored]_vars

InitOrder == InitWith({[i \in Inst |-> OneCategory]}, {EmptyRaw}, TRUE)

NextOrder ==
    \/ LocalNext(Inst, { << <<"a", "true">> >>, << <<"a", "false">> >> })
    \/ DeliverNext
    \/ ListenerNext({"A"}, {"L1"})
    \/ \E r \in BOOLEAN : Guard("A", "G1", "a", r)
    \/ \E g \in {"G1"} : Dispose(g)

\* Two tabs, every operation observed; tab A has a listener and a guard on the
\* declared category, whose tick reads get('a') when it is notified.
SpecOrder == InitOrder /\ [][NextOrder]_vars

\* Tab A under each storage order, with and without a re-consent window of a day.
SyncConfigs ==
    { MkConfig(<<"a">>, NoIdentifier, Null, <<"localStorage", "cookie">>),
      MkConfig(<<"a">>, NoIdentifier, Some(1), <<"cookie", "localStorage">>),
      MkConfig(<<"a">>, NoIdentifier, Some(1), <<"localStorage">>),
      MkConfig(<<"a">>, NoIdentifier, Null, <<>>) }

\* Browsers with and without localStorage.
SyncRuntimes == { [Browser({}, TRUE) EXCEPT !.localStorage = s] : s \in {"ok", "none"} }

InitSync ==
    InitIn(SyncRuntimes,
           {[i \in Inst |-> IF i = "A" THEN c ELSE OneCategory] : c \in SyncConfigs},
           {EmptyRaw, GarbageRaw, ForeignRaw},
           {EmptyRaw, GarbageRaw, LeftLocal})

NextSync ==
    \/ LocalNext(Inst, { << <<"a", "true">> >>, << <<"a", "false">> >> })
    \/ DeliverNext
    \/ \E ms \in {MsPerDay + 1} : Tick(ms)

\* Two tabs of one policy, tab B on the cookie alone and tab A under any storage
\* order, on stores that may hold values of any kind, while time passes.
SpecSync == InitSync /\ [][NextSync]_vars

\* Both tabs with the same init: no re-consent window, or one of a day.
InitLive ==
    InitWith({[i \in Inst |-> c] : c \in {OneCategory, MkConfig(<<"a">>, NoIdentifier, Some(1), <<>>)}},
             {EmptyRaw}, TRUE)

NextLive ==
    \/ LocalNext(Inst, { << <<"a", "true">> >>, << <<"a", "false">> >> })
    \/ DeliverNext
    \/ \E ms \in {MsPerDay + 1} : Tick(ms)

\* Two tabs of one init on one cookie jar and channel; a posted signal is handled
\* sooner or later (the browser dispatches the message event), and time passes.
SpecLive == InitLive /\ [][NextLive]_vars /\ WF_vars(DeliverNext)

\* Both tabs with the same init of two categories: no re-consent window, or one
\* of a day.
MergeConfigs ==
    { MkConfig(<<"a", "b">>, NoIdentifier, Null, <<>>),
      MkConfig(<<"a", "b">>, NoIdentifier, Some(1), <<>>) }

InitMerge == InitWith({[i \in Inst |-> c] : c \in MergeConfigs}, {EmptyRaw}, TRUE)

NextMerge ==
    \/ LocalNext(Inst, MirrorArgs)
    \/ DeliverNext
    \/ \E ms \in {MsPerDay + 1} : Tick(ms)

\* Two tabs of one two-category policy setting one category at a time on one
\* cookie jar, with signals handled at any moment or not at all, while time passes.
SpecMerge == InitMerge /\ [][NextMerge]_vars

\* A stored value with the identity of the two-category policy.
StoredAs(givenAt, choices) ==
    Enc(MkSnapshot(HashPolicy(<<"a", "b">>, NoIdentifier), givenAt, choices))

\* Stale values that grant a: text that does not decode, a snapshot of another
\* policy, one whose a is no boolean, and one whose givenAt is no date.
StaleCookies ==
    { GarbageRaw, ForeignRaw,
      StoredAs(IsoString(0), << <<Necessary, "true">>, <<"a", "yes">>, <<"b", "false">> >>),
      StoredAs(NotADate, << <<Necessary, "true">>, <<"a", "true">>, <<"b", "false">> >>) }

InitStale ==
    InitWith({[i \in Inst |-> c] : c \in MergeConfigs}, {EmptyRaw} \cup StaleCookies, TRUE)

NextStale ==
    \/ LocalNext({"A"}, MirrorArgs)
    \/ \E p \in MirrorArgs, stored \in BOOLEAN : ServerSetCall("A", p, TRUE, stored)
    \/ \E ms \in {MsPerDay + 1} : Tick(ms)

\* One instance and its server facade, which is always handed the request's
\* Cookie header, on a cookie that may be stale from the start or grow stale as
\* time passes.
SpecStale == InitStale /\ [][NextStale]_vars

NextStateless ==
    \/ LocalNext(Inst, { << <<"a", "true">> >>, << <<"a", "false">> >> })
    \/ DeliverNext
    \/ ListenerNext({"A"}, {"L1"})
    \/ \E i \in Inst, p \in MirrorArgs : ServerSetCall(i, p, FALSE, FALSE)
    \/ \E i \in Inst, h \in BOOLEAN : ServerGetCall(i, h)
    \/ \E i \in Inst, flat \in BOOLEAN, h \in BOOLEAN : ServerClearCall(i, flat, h, FALSE)

\* Two tabs with a listener, whose server facade is called in between with the
\* empty text or the request's Cookie header; what a call returns is not stored.
SpecStateless == InitOrder /\ [][NextStateless]_vars

InitPriority ==
    InitIn(FallbackRuntimes,
           {[i \in Inst |-> IF i = "A"
                            THEN MkConfig(<<"a">>, NoIdentifier, Some(1), <<"localStorage", "cookie">>)
                            ELSE MkConfig(<<"a">>, NoIdentifier, Some(1), <<>>)]},
           {EmptyRaw, DeniesA},
           {EmptyRaw, GarbageRaw, ForeignRaw, UndatedCookie, LeftLocal})

NextPriority ==
    \/ LocalNext(Inst, { << <<"a", "true">> >>, << <<"a", "false">> >> })
    \/ DeliverNext
    \/ \E ms \in {MsPerDay + 1} : Tick(ms)

\* Tab A reading localStorage before the cookie and tab B on the cookie alone,
\* both with a re-consent window of a day, where localStorage may hold a value
\* that does not decode, is no snapshot, is of another policy or grows old.
SpecPriority == InitPriority /\ [][NextPriority]_vars

InitConsent == InitWith({[i \in Inst |-> OneCategory]}, {EmptyRaw, LeftLocal}, TRUE)

NextConsent ==
    \/ LocalNext(Inst, { << <<"a", "true">> >>, << <<"a", "false">> >> })
    \/ DeliverNext
    \/ \E w \in {Null, Some(500)} : EnableConsentMode("A", w)
    \/ \E cb \in ConsentModes : Unsubscribe("A", cb)

\* Two tabs of one policy, on an empty cookie jar or one that holds a snapshot;
\* tab A enables Google Consent Mode at some point and may dispose of it.
SpecConsent == InitConsent /\ [][NextConsent]_vars

NextIdentity ==
    \/ LocalNext({"A"}, { << <<"a", "true">> >>, << <<"a", "false">> >> })
    \/ \E cb \in PlainListeners : SubscribeCall("A", cb)
    \/ \E cb \in PlainListeners, n \in 1..MaxCalls : UnsubscribeCall("A", cb, n)

\* One tab whose two callbacks are subscribed any number of times, with every
\* unsubscribe function returned so far callable at any time.
SpecIdentity == InitOrder /\ [][NextIdentity]_vars

\* What the caller's onGrant may do.
GrantBehaviours == {"returns", "throws", "throwsOnce", "disposes"}

NextThrow ==
    \/ LocalNext({"A"}, { << <<"a", "true">> >>, << <<"a", "false">> >> })
    \/ \E r \in BOOLEAN, b \in GrantBehaviours, t \in BOOLEAN : GuardCall("A", "G1", "a", r, b, t)
    \/ \E g \in {"G1"} : Dispose(g)

\* One tab with one guard on the declared category whose callbacks may throw, and
\* whose onGrant may call the guard's own dispose function.
SpecThrow == InitOrder /\ [][NextThrow]_vars

\* ------------------------------------------------------------------ properties
\* The state the stored cookie denotes for instances of its own policy, when
\* nothing expires: what was written last, or Unset when nothing is stored.
StoredState == IF cookie.kind = "json" THEN Decided(cookie.doc) ELSE UnsetState

\* Each callback subscribed when the operation began was called once, no other.
FiredOnceEach ==
    \A cb \in Callbacks : last.fired[cb] = (IF cb \in last.subs THEN 1 ELSE 0)

\* C1: a client.set whose merged, normalized choices equal the choices of the
\* stored valid snapshot writes nothing, calls no listener and posts no signal.
C1_IdempotentSet ==
    (/\ last.op = "set"
     /\ last.fresh # Null
     /\ AsMapping(last.next[1].choices) = AsMapping(last.fresh[1].choices))
    => (last.writes = 0 /\ last.fired = NoneFired /\ last.posted = NonePosted)

\* C2: a set or clear on one tab that changed storage calls each of that tab's
\* listeners once and signals every other tab but not itself; when another tab
\* handles the signal its cache is what storage holds (Unset after a clear) and
\* each of its listeners is called once.
C2_CrossTab ==
    /\ (last.op \in {"set", "clear"} /\ last.writes = 1) =>
            /\ FiredOnceEach
            /\ last.posted[last.inst] = 0
            /\ \A j \in created \ {last.inst} : last.posted[j] = 1
            /\ cachedState[last.inst] = StoredState
    /\ last.op = "message" =>
            /\ FiredOnceEach
            /\ cachedState[last.inst] = StoredState
            /\ \A c \in {"a"} : ClientGet(last.inst, c) =
                    (cookie.kind = "json" /\ Lookup(cookie.doc.choices, c) = "true")

\* Tab B, with a listener, has handled the signal of a set on tab A that granted "a".
C2_Witness ==
    /\ last.op = "message" /\ last.inst = "B"
    /\ "L1" \in last.subs /\ last.fired["L1"] = 1
    /\ ClientGet("B", "a")

C4_Dispose ==
    [][\A g \in Guards :
          /\ guards'[g].disposed =>
                (guards'[g].phase = "done" /\ g \notin listeners'[guards'[g].inst])
          /\ guards[g].disposed => guards'[g] = guards[g]
          /\ (~guards[g].disposed /\ guards'[g].disposed) =>
                /\ guards'[g].grants = guards[g].grants
                /\ guards'[g].revokes = guards[g].revokes
                /\ \A h \in Guards \ {g} : guards'[h] = guards[h]
                /\ listeners' = [listeners EXCEPT ![guards[g].inst] = @ \ {g}]
                /\ cachedState' = cachedState /\ cookie' = cookie /\ chan' = chan]_vars

\* A guard disposed while granted, never revoked, with "a" withdrawn since and
\* another subscription still in place.
C4_Witness ==
    \E g \in Guards :
        /\ guards[g].made /\ guards[g].disposed /\ guards[g].hasRevoke
        /\ guards[g].category = "a"
        /\ guards[g].grants = 1 /\ guards[g].revokes = 0
        /\ ~ClientGet(guards[g].inst, "a")
        /\ listeners[guards[g].inst] # {}

\* C5: a guard without onRevoke never waits while its category is granted (onGrant
\* is called inside guard() or at the first change that grants it), is done and
\* unsubscribed as soon as onGrant was called, and calls nothing else afterwards.
C5_OneShot ==
    \A g \in Guards :
        (guards[g].made /\ ~guards[g].hasRevoke) =>
            /\ guards[g].revokes = 0
            /\ guards[g].grants <= 1
            /\ guards[g].phase \in {"waiting", "done"}
            /\ guards[g].phase = "waiting" =>
                    /\ guards[g].grants = 0
                    /\ ~ClientGet(guards[g].inst, guards[g].category)
                    /\ g \in listeners[guards[g].inst]
            /\ guards[g].phase = "done" => g \notin listeners[guards[g].inst]
            /\ ~guards[g].disposed => (guards[g].phase = "done" <=> guards[g].grants = 1)

\* A one-shot guard on "a" has fired and "a" has been withdrawn since.
C5_Witness ==
    \E g \in Guards :
        /\ guards[g].made /\ ~guards[g].hasRevoke /\ ~guards[g].disposed
        /\ guards[g].category = "a" /\ guards[g].grants = 1
        /\ cachedState[guards[g].inst].decision = "decided"
        /\ ~ClientGet(guards[g].inst, "a")

\* C6: a guard on the fixed category has called onGrant once as soon as it is
\* made, whatever is stored, and never calls onRevoke.
C6_GuardNecessary ==
    \A g \in Guards :
        (guards[g].made /\ guards[g].category = Necessary) =>
            (guards[g].grants = 1 /\ guards[g].revokes = 0)

\* A guard on the fixed category with onRevoke, still watching, on a tab whose
\* consent is Unset.
C6_Witness ==
    \E g \in Guards :
        /\ guards[g].made /\ guards[g].category = Necessary /\ guards[g].hasRevoke
        /\ guards[g].phase = "granted" /\ g \in listeners[guards[g].inst]
        /\ cachedState[guards[g].inst] = UnsetState
        /\ guards[g].grants = 1

\* The set of categories an init object declares.
CategorySet(c) == {c.categories[k] : k \in DOMAIN c.categories}

\* C7: the snapshot client.set writes and the one server.set puts in its header
\* have necessary = true, and their choices hold one boolean for each of necessary
\* and the declared categories and nothing else, whatever was passed or stored.
C7_NormalizedChoices ==
    /\ last.op \in {"set", "server.set"} =>
            LET ch == last.next[1].choices IN
            /\ Lookup(ch, Necessary) = "true"
            /\ Keys(ch) = Allowed(last.inst)
            /\ Len(ch) = Cardinality(Allowed(last.inst))
            /\ \A k \in DOMAIN ch : IsBoolean(ch[k][2])
    /\ (last.op = "set" /\ last.writes = 1) => cookie = Enc(last.next[1])

\* server.set was passed necessary: false and an undeclared key, on top of stored
\* choices that hold a category this instance does not declare.
C7_Witness ==
    /\ last.op = "server.set"
    /\ Lookup(last.arg, Necessary) = "false" /\ HasKey(last.arg, "x")
    /\ last.fresh # Null
    /\ Lookup(last.fresh[1].choices, "b") = "true"
    /\ "b" \notin Allowed(last.inst)

\* C8: a stored snapshot of another policy identity is Unset for server.get and for
\* the client read, an instance that synced on it is Unset and grants no category,
\* and no instance ever caches a snapshot of another identity.
C8_PolicyMismatch ==
    \A i \in Inst :
        /\ (cookie.kind = "json" /\ cookie.doc.policy # policyHash[i]) =>
                /\ ServerGet(i, RequestHeader) = UnsetState
                /\ ReadClient(i, Stores) = Null
                /\ (last.op \in {"create", "message"} /\ last.inst = i) =>
                        /\ cachedState[i] = UnsetState
                        /\ \A c \in {"a", "b"} : ~ClientGet(i, c)
        /\ cachedState[i].decision = "decided" =>
                cachedState[i].snapshot[1].policy = policyHash[i]

\* An instance was created on a valid stored snapshot of another policy identity
\* that grants "a".
C8_Witness ==
    /\ last.op = "create"
    /\ cookie.kind = "json" /\ IsValidSnapshot(cookie.doc)
    /\ cookie.doc.policy # policyHash[last.inst]
    /\ Lookup(cookie.doc.choices, "a") = "true"
    /\ cachedState[last.inst] = UnsetState

\* C9: when two instances differ in the set of their categories or in their
\* identifier, consent stored through the one is Unset for the other, with or
\* without an identifier.
C9_PolicyVersioning ==
    \A a, b \in Inst :
        (/\ a # b /\ a \in created
         /\ last.op = "create" /\ last.inst = b
         /\ cookie.kind = "json"
         /\ \/ CategorySet(cfg[a]) # CategorySet(cfg[b])
            \/ cfg[a].identifier # cfg[b].identifier)
        => cachedState[b] = UnsetState

\* C10: with consentMaxAgeDays = D configured, a stored snapshot of this policy is
\* Unset for server.get and for the client read exactly when its givenAt is no
\* date or now - givenAt > D * 86,400,000, so not at the boundary.
C10_ExpiryRule ==
    \A i \in Inst :
        (/\ cfg[i].consentMaxAgeDays # Null
         /\ cookie.kind = "json" /\ cookie.doc.policy = policyHash[i])
        => LET t == DateGetTime(cookie.doc.givenAt)
               expired == t = -1 \/ now - t > cfg[i].consentMaxAgeDays[1] * MsPerDay
           IN  /\ (ServerGet(i, RequestHeader) = UnsetState) <=> expired
               /\ (ReadClient(i, Stores) = Null) <=> expired

\* C11: right after client.set(p) returns, get() is Decided and get(c) is the
\* boolean of p[c] for every declared category c that p mentions, also when
\* another tab wrote the storage and this tab has not handled the signal yet.
C11_SetThenGet ==
    last.op = "set" =>
        /\ cachedState[last.inst].decision = "decided"
        /\ \A k \in DOMAIN last.arg :
              last.arg[k][1] \in Allowed(last.inst) \ {Necessary} =>
                  ClientGet(last.inst, last.arg[k][1]) = (ToBoolean(last.arg[k][2]) = "true")

C13_ClearResets ==
    last.op = "clear" =>
        /\ cookie.kind = "empty"
        /\ ~Truthy(ReadFromStore(Stores, "cookie"))
        /\ \A k \in DOMAIN StorageOrder(cfg[last.inst]) :
              /\ ~Truthy(ReadFromStore(Stores, StorageOrder(cfg[last.inst])[k]))
              /\ StorageOrder(cfg[last.inst])[k] = "localStorage" => localStore.kind = "empty"
        /\ cachedState[last.inst] = UnsetState
        /\ \A c \in Allowed(last.inst) \ {Necessary} : ~ClientGet(last.inst, c)

\* clear() of an instance that mirrors to localStorage, called when "a" was granted.
C13_Witness ==
    /\ last.op = "clear"
    /\ StorageOrder(cfg[last.inst]) = <<"localStorage", "cookie">>
    /\ last.fresh # Null /\ Lookup(last.fresh[1].choices, "a") = "true"
    /\ cachedState[last.inst] = UnsetState /\ localStore.kind = "empty"

\* C14: a local set that changed storage, a local clear and a handled signal each
\* call every callback subscribed at that moment once and no callback that is not
\* subscribed (one that never was, or one whose unsubscribe function was called);
\* a set that changed nothing calls none; an unsubscribe takes exactly one
\* callback out of the set, a subscribe adds one, and nothing else changes the set.
C14_Subscription ==
    [][/\ (last'.op \in {"clear", "message"} \/ (last'.op = "set" /\ last'.writes = 1)) =>
             \A cb \in PlainListeners :
                 last'.fired[cb] = (IF cb \in listeners[last'.inst] THEN 1 ELSE 0)
       /\ (last'.op = "set" /\ last'.writes = 0) => last'.fired = NoneFired
       /\ last'.op = "unsubscribe" =>
             \E cb \in listeners[last'.inst] :
                 listeners' = [listeners EXCEPT ![last'.inst] = @ \ {cb}]
       /\ last'.op = "subscribe" =>
             \E cb \in PlainListeners \ listeners[last'.inst] :
                 listeners' = [listeners EXCEPT ![last'.inst] = @ \cup {cb}]
       /\ last'.op \notin {"subscribe", "unsubscribe"} => listeners' = listeners]_vars

\* Of two callbacks one was unsubscribed; a later set called the other once and
\* the unsubscribed one not at all.
C14_Witness ==
    /\ last.op = "set" /\ last.writes = 1
    /\ last.subs = {"L2"} /\ listeners[last.inst] = {"L2"}
    /\ last.fired["L2"] = 1 /\ last.fired["L1"] = 0

\* C15: when a listener throws in the pass of a set or clear, every subscribed
\* listener is still called once, the cache holds what was just stored, and the
\* signal is posted to every other tab (the call did not throw before posting).
C15_ListenerIsolation ==
    (/\ last.op \in {"set", "clear"} /\ last.writes = 1
     /\ last.subs \cap env.throwing # {})
    => /\ \A cb \in last.subs : last.fired[cb] = 1
       /\ cachedState[last.inst] = StoredState
       /\ \A j \in created \ {last.inst} : last.posted[j] = 1

\* A set on tab A with the throwing L1 and with L2 subscribed: L2 was called and
\* tab B was signalled.
C15_Witness ==
    /\ last.op = "set" /\ last.writes = 1 /\ last.inst = "A"
    /\ "L1" \in env.throwing /\ last.subs = {"L1", "L2"}
    /\ last.fired["L1"] = 1 /\ last.fired["L2"] = 1
    /\ "B" \in created /\ last.posted["B"] = 1

\* C16: getServerSnapshot() returns the Unset state whatever set, clear or signal
\* came before, and the call changes nothing of the instance or the stores.
C16_ServerSnapshot ==
    [][last'.op = "getServerSnapshot" =>
          /\ last'.next = Some(UnsetState)
          /\ UNCHANGED <<cookie, localStore, created, cachedState, listeners, chan, guards>>]_vars

\* getServerSnapshot() on a tab whose cache is Decided and grants "a".
C16_Witness ==
    /\ last.op = "getServerSnapshot"
    /\ cachedState[last.inst].decision = "decided"
    /\ ClientGet(last.inst, "a")
    /\ last.next = Some(UnsetState)

\* C17: get(category) is true for necessary in every state; for another category
\* it is true exactly when the cache is Decided and the cached choices hold that
\* category with the value true.
C17_GetCategory ==
    last.op = "get" =>
        LET c == last.arg[1]
            st == cachedState[last.inst]
        IN  last.next[1] =
                \/ c = Necessary
                \/ /\ st.decision = "decided"
                   /\ \E k \in DOMAIN st.snapshot[1].choices :
                          st.snapshot[1].choices[k] = <<c, "true">>

\* get("necessary") answered true on a tab whose cache is Unset while storage
\* holds a snapshot.
C17_Witness ==
    /\ last.op = "get" /\ last.arg = <<Necessary>> /\ last.next = Some(TRUE)
    /\ cachedState[last.inst] = UnsetState
    /\ cookie.kind = "json"

\* A decoded value that is a snapshot: a non-empty policy text, a givenAt that is
\* a date, and choices that are an object of booleans.
WellFormed(doc) ==
    /\ doc.policy \notin {NotAString, <<>>}
    /\ doc.givenAt[1] = "iso"
    /\ doc.choices # NotAnObject
    /\ \A k \in DOMAIN doc.choices : doc.choices[k][2] \in {"true", "false"}

\* C18: server.get(header) is Unset for an empty (or null) header, for a header
\* without the named cookie, and for a value that does not decode or is no
\* well-formed snapshot; it is Decided, with the stored snapshot, exactly for a
\* well-formed snapshot of the instance's policy inside its re-consent window,
\* wherever the cookie stands among the others.
C18_ServerGet ==
    last.op = "server.get" =>
        LET i == last.inst
            h == last.arg
            named == {k \in DOMAIN h : h[k][1] = CookieName}
        IN  IF named = {} THEN last.fresh = Null
            ELSE LET raw == h[CHOOSE k \in named : \A j \in named : k <= j][2]
                     d == cfg[i].consentMaxAgeDays
                 IN  IF /\ raw.kind = "json"
                        /\ WellFormed(raw.doc)
                        /\ raw.doc.policy = policyHash[i]
                        /\ d # Null => now - raw.doc.givenAt[2] <= d[1] * MsPerDay
                     THEN last.fresh = Some(raw.doc)
                     ELSE last.fresh = Null

\* server.get found a valid snapshot between two other cookies and is Decided.
C18_Witness ==
    /\ last.op = "server.get" /\ Len(last.arg) = 3
    /\ last.arg[2][1] = CookieName
    /\ last.fresh # Null /\ Lookup(last.fresh[1].choices, "b") = "true"

\* C19: the header of server.clear() and of clear(text), for the empty text and
\* for a Cookie header, in every state, is the instance's set header with an
\* empty value and Max-Age=0: the same name, Path, SameSite, Domain and Secure.
C19_ClearHeader ==
    /\ \A i \in Inst :
          /\ FlatClear(i, <<>>) = ServerClear(i)
          /\ FlatClear(i, RequestHeader) = ServerClear(i)
    /\ last.op \in {"server.clear", "clear(text)"} =>
          LET cleared == last.next[1]
              sent == ServerSet(last.inst, << <<"a", "true">> >>, RequestHeader)
          IN  /\ cleared.name = CookieName /\ cleared.name = sent.name
              /\ cleared.value.kind = "empty"
              /\ cleared.maxAgeSec = 0
              /\ cleared.path = sent.path
              /\ cleared.sameSite = sent.sameSite
              /\ cleared.domain = sent.domain
              /\ cleared.secure = sent.secure
              /\ cleared = ServerClear(last.inst)

\* clear(text) was called with the request's Cookie header, which held the
\* cookie, by an instance with Path, Domain and SameSite=None configured; the
\* browser has dropped the cookie.
C19_Witness ==
    /\ last.op = "clear(text)" /\ Len(last.arg) = 3
    /\ last.next[1].path = "/app" /\ last.next[1].domain = Some(".example.com")
    /\ last.next[1].sameSite = "None" /\ last.next[1].secure
    /\ cookie.kind = "empty"

\* C20: hashPolicy gives the same hash for a category list and for any permutation
\* of it under the same identifier; two instances declaring the same categories
\* in different orders have the same policy identity, and each resolves what
\* the other stored as Decided.
C20_HashOrder ==
    /\ (last.op = "hashPolicy" /\ last.fresh # Null) => last.next = last.fresh
    /\ \A i, j \in Inst : policyHash[i] = policyHash[j]
    /\ (last.op = "create" /\ cookie.kind = "json") =>
            cachedState[last.inst] = Decided(cookie.doc)

\* The instance declaring c, a, b was created on a snapshot stored by the one
\* declaring a, b, c (no identifier) and is Decided.
C20_Witness ==
    /\ last.op = "create" /\ last.inst = "B"
    /\ cfg["A"].categories = <<"a", "b", "c">> /\ cfg["B"].categories = <<"c", "a", "b">>
    /\ cfg["A"].identifier = NoIdentifier
    /\ cookie.kind = "json" /\ Keys(cookie.doc.choices) = {Necessary, "a", "b", "c"}
    /\ cookie.doc.choices[2][1] = "a"
    /\ cachedState["B"].decision = "decided" /\ ClientGet("B", "a")

\* C21: with storage order localStorage, cookie and working backends, a client.set
\* that changes state leaves the raw value it encoded in localStorage and in the
\* cookie, client.clear leaves both empty, and so from empty storage the two
\* backends hold the same raw value after any sequence of sets and clears.
C21_Mirror ==
    /\ cookie = localStore
    /\ (last.op = "set" /\ last.writes = 1) =>
            (cookie = Enc(last.next[1]) /\ localStore = Enc(last.next[1]))
    /\ last.op = "clear" => (cookie = EmptyRaw /\ localStore = EmptyRaw)

\* A set by the instance of the other policy replaced the snapshot in both
\* backends.
C21_Witness ==
    /\ last.op = "set" /\ last.writes = 1 /\ last.inst = "B"
    /\ policyHash["A"] # policyHash["B"]
    /\ last.fresh = Null
    /\ localStore.kind = "json" /\ localStore.doc.policy = policyHash["B"]
    /\ cookie = localStore
    /\ cachedState["A"].decision = "decided"

\* C22: with storage order localStorage, cookie and localStorage writes that throw,
\* after client.set(p) client.get(c) is p[c] for every declared category c in p,
\* whatever localStorage and the cookie held before.
C22_Fallback ==
    (last.op = "set" /\ SetItemThrows) =>
        \A k \in DOMAIN last.arg :
            last.arg[k][1] \in Allowed(last.inst) \ {Necessary} =>
                ClientGet(last.inst, last.arg[k][1]) = (ToBoolean(last.arg[k][2]) = "true")

\* The choices of a snapshot as normalize leaves them for instance i.
NormalChoices(i, ch) ==
    /\ Lookup(ch, Necessary) = "true"
    /\ Keys(ch) = Allowed(i)
    /\ \A k \in DOMAIN ch : IsBoolean(ch[k][2])

\* C23: every stored value that resolves to Decided, in what server.get returns
\* and in the cache of a client, has choices with necessary = true, a boolean for
\* every declared category and no undeclared key.
C23_ChoicesOnRead ==
    /\ (last.op = "server.get" /\ last.fresh # Null) =>
            NormalChoices(last.inst, last.fresh[1].choices)
    /\ \A i \in created :
            cachedState[i].decision = "decided" =>
                NormalChoices(i, cachedState[i].snapshot[1].choices)

\* C24: a client.set that changes storage and a client.clear write or clear the
\* stores, re-sync the cache, call the local listeners and post the signal, in
\* this order: the cache and what a notified listener reads through get (a
\* guard's tick) are the resolution of the stores as the operation left them,
\* every listener subscribed has been called, and only then is the signal put on
\* the other instances' channels, none of which has handled anything in the
\* meantime.
C24_StepOrder ==
    [][ (last'.op \in {"set", "clear"} /\ (last'.op = "set" => last'.writes = 1)) =>
            LET i == last'.inst
                post == SyncState(i, [cookie |-> cookie', localStore |-> localStore'])
            IN  /\ last'.op = "set" => cookie' = Enc(last'.next[1])
                /\ last'.op = "clear" => cookie' = EmptyRaw
                /\ cachedState'[i] = post
                /\ \A g \in listeners[i] \cap Guards : guards'[g] = GuardTick(guards[g], post)
                /\ \A cb \in listeners[i] : last'.fired[cb] = 1
                /\ \A j \in created \ {i} :
                        /\ chan'[j] = chan[j] + 1
                        /\ cachedState'[j] = cachedState[j]
                        /\ listeners'[j] = listeners[j]
      ]_vars

\* Tab A revoked a: its guard, granted before, was told in the same call and saw
\* a denied; its listener ran; tab B has the signal pending and still caches the
\* grant.
C24_Witness ==
    /\ last.op = "set" /\ last.inst = "A" /\ last.writes = 1
    /\ last.arg = << <<"a", "false">> >>
    /\ {"G1", "L1"} \subseteq last.subs
    /\ last.fired["G1"] = 1 /\ last.fired["L1"] = 1
    /\ guards["G1"].revokes = 1 /\ guards["G1"].phase = "done"
    /\ chan["B"] = 1
    /\ ClientGet("B", "a") /\ ~ClientGet("A", "a")

\* C25: a local set or clear after which the instance reads back from storage the
\* snapshot it read before it (clear on empty storage, a set whose write did not
\* reach a store that is read) calls no listener and posts no signal.
C25_NotifyOnChange ==
    (last.op \in {"set", "clear"} /\ ReadClient(last.inst, Stores) = last.fresh) =>
        (last.fired = NoneFired /\ last.posted = NonePosted)

\* C26: client.get() returns the cached state and changes nothing, and the cache
\* of an instance changes only in its construction, in a set of its own that
\* changed storage, in its clear and when it handles a signal; between two of
\* these every get() returns the same state, whatever another instance has done
\* to the shared storage.
C26_GetIsCacheRead ==
    [][ /\ last'.op = "get()" =>
                /\ last'.next = Some(cachedState[last'.inst])
                /\ UNCHANGED <<env, now, ticks, cookie, localStore, created, cfg, policyHash,
                               cachedState, listeners, chan, guards>>
        /\ \A i \in Inst :
                cachedState'[i] # cachedState[i] =>
                    /\ last'.inst = i
                    /\ last'.op \in {"create", "set", "clear", "message"}
                    /\ last'.op = "set" => last'.writes = 1
      ]_vars

\* Tab B's get() returned Unset although tab A has stored a snapshot: B has not
\* handled the signal yet.
C26_Witness ==
    /\ last.op = "get()" /\ last.inst = "B" /\ last.next = Some(UnsetState)
    /\ cookie.kind = "json" /\ chan["B"] = 1
    /\ cachedState["A"].decision = "decided"

\* What readFromStore finds in a store now (nothing in a localStorage that is not there).
Readable(kind) ==
    IF kind = "cookie" THEN cookie
    ELSE IF kind = "localStorage" /\ env.localStorage # "none" THEN localStore
    ELSE EmptyRaw

\* The resolution of the stores for instance i: the first non-empty raw value in
\* its read order, if it is a well-formed snapshot of its policy inside its
\* re-consent window.
Resolution(i) ==
    LET order == StorageOrder(cfg[i])
        full == {k \in DOMAIN order : Readable(order[k]).kind # "empty"}
        raw == IF full = {} THEN EmptyRaw
               ELSE Readable(order[CHOOSE k \in full : \A j \in full : k <= j])
        d == cfg[i].consentMaxAgeDays
    IN  IF /\ raw.kind = "json"
           /\ WellFormed(raw.doc)
           /\ raw.doc.policy = policyHash[i]
           /\ d # Null => now - raw.doc.givenAt[2] <= d[1] * MsPerDay
        THEN Decided(raw.doc)
        ELSE UnsetState

\* C27: right after construction in a browser, after a client.set that changed
\* storage, after a client.clear and after a handled signal, the cached state of
\* the instance is the resolution of the stores as they are then.
C27_CacheCoherence ==
    (/\ last.op \in {"create", "set", "clear", "message"}
     /\ last.op = "set" => last.writes = 1) =>
        cachedState[last.inst] = Resolution(last.inst)

\* Tab A, reading localStorage before the cookie, handled a signal and resolved
\* the cookie that tab B wrote, its localStorage being empty.
C27_Witness ==
    /\ last.op = "message" /\ last.inst = "A"
    /\ StorageOrder(cfg["A"]) = <<"localStorage", "cookie">>
    /\ Readable("localStorage").kind = "empty"
    /\ cookie.kind = "json"
    /\ cachedState["A"] = Decided(cookie.doc)

\* get() of every instance made is the resolution of the shared stores.
Consistent == \A i \in created : ClientGetState(i) = Resolution(i)

\* C28: if from some point on no set and no clear is called and every posted
\* signal is handled in the end, then from some point on get() of every instance
\* (same cookie name, policy and storage configuration) is the resolution of the
\* shared stores, for good.
C28_EventuallyConsistent ==
    (<>[][last'.op \notin {"set", "clear"}]_vars) => <>[]Consistent

\* What a set with argument p must leave stored for category c when `kept` are
\* the choices made before it, if any.
MergedValue(p, c, kept) ==
    IF HasKey(p, c) THEN ToBoolean(Lookup(p, c))
    ELSE IF kept # Null /\ HasKey(kept[1], c) THEN Lookup(kept[1], c)
    ELSE "false"

\* C29 as stated: whatever signals have been handled, after a set the stored
\* choices give each declared category the value of the latest set that
\* mentioned it, false if there is none since the last clear. Step by step: a
\* set stores, for each declared category, its argument's value or else the
\* value stored before it (false when nothing is stored), a clear empties the
\* store, and nothing else changes it.
C29_NoLostUpdate ==
    [][ /\ last'.op = "set" =>
                /\ cookie'.kind = "json"
                /\ \A c \in Allowed(last'.inst) \ {Necessary} :
                        Lookup(cookie'.doc.choices, c) =
                            MergedValue(last'.arg, c,
                                IF cookie.kind = "json" THEN Some(cookie.doc.choices) ELSE Null)
        /\ last'.op = "clear" => cookie' = EmptyRaw
        /\ last'.op \notin {"set", "clear"} => cookie' = cookie
      ]_vars

\* C29, amended: the same, where the value stored before counts only while the
\* stored snapshot is inside the re-consent window of the instance that sets; a
\* snapshot that has expired is treated as absent.
C29_NoLostUpdateUnexpired ==
    [][ /\ last'.op = "set" =>
                /\ cookie'.kind = "json"
                /\ \A c \in Allowed(last'.inst) \ {Necessary} :
                        Lookup(cookie'.doc.choices, c) =
                            MergedValue(last'.arg, c,
                                IF Resolution(last'.inst).decision = "decided"
                                THEN Some(cookie.doc.choices) ELSE Null)
        /\ last'.op = "clear" => cookie' = EmptyRaw
        /\ last'.op \notin {"set", "clear"} => cookie' = cookie
      ]_vars

\* Tab B set b while its cache was still Unset, tab A's signal not yet handled:
\* the a that tab A stored is kept.
C29_Witness ==
    /\ last.op = "set" /\ last.inst = "B" /\ last.arg = << <<"b", "true">> >>
    /\ chan["B"] = 1
    /\ cookie.kind = "json"
    /\ Lookup(cookie.doc.choices, "a") = "true" /\ Lookup(cookie.doc.choices, "b") = "true"

\* The stored cookie is there and is not a well-formed snapshot of instance i's
\* policy inside its re-consent window.
Stale(i) == cookie.kind # "empty" /\ Resolution(i) = UnsetState

\* C30: a client.set(p) or server.set(p, h) that finds a stored value that is
\* malformed, of another policy identity or expired makes a snapshot with the
\* instance's policy identity, the current time as givenAt, and p over the
\* all-false defaults (nothing of the stored choices); client.set writes it.
C30_StaleNotMerged ==
    [][ (last'.op \in {"set", "server.set"} /\ Stale(last'.inst)) =>
            LET i == last'.inst
                n == last'.next[1]
            IN  /\ n.policy = policyHash[i]
                /\ n.givenAt = IsoString(now)
                /\ Lookup(n.choices, Necessary) = "true"
                /\ Keys(n.choices) = Allowed(i)
                /\ \A c \in Allowed(i) \ {Necessary} :
                        Lookup(n.choices, c) = MergedValue(last'.arg, c, Null)
                /\ last'.op = "set" => (last'.writes = 1 /\ cookie' = Enc(n))
      ]_vars

\* server.set({b: true}, h) was handed a snapshot of its own policy that grants a
\* and is more than a day old, under a window of a day: the snapshot it returns
\* denies a and is dated now. (The browser has not stored the answer.)
C30_Witness ==
    /\ last.op = "server.set" /\ last.arg = << <<"b", "true">> >>
    /\ cfg["A"].consentMaxAgeDays = Some(1)
    /\ cookie.kind = "json" /\ cookie.doc.policy = policyHash["A"]
    /\ cookie.doc.givenAt = IsoString(0) /\ now > MsPerDay
    /\ Lookup(cookie.doc.choices, "a") = "true"
    /\ Lookup(last.next[1].choices, "a") = "false"
    /\ Lookup(last.next[1].choices, "b") = "true"
    /\ last.next[1].givenAt = IsoString(now)

\* C31: at no time does client.get() of an instance with consentMaxAgeDays = D
\* return Decided, or get(category) return true for a declared category, from a
\* snapshot whose givenAt lies more than D days before the call.
C31_ExpiredNeverServed ==
    \A i \in created :
        LET d == cfg[i].consentMaxAgeDays
            state == ClientGetState(i)
        IN  (d # Null /\ state.decision = "decided") =>
                now - DateGetTime(state.snapshot[1].givenAt) <= d[1] * MsPerDay

\* What a header text resolves to for instance i, whatever the browser stores:
\* the first cookie of the name, if it is a well-formed snapshot of the policy
\* inside the window.
HeaderResolution(i, h) ==
    LET named == {k \in DOMAIN h : h[k][1] = CookieName}
        raw == IF named = {} THEN EmptyRaw ELSE h[CHOOSE k \in named : \A j \in named : k <= j][2]
        d == cfg[i].consentMaxAgeDays
    IN  IF /\ raw.kind = "json"
           /\ WellFormed(raw.doc)
           /\ raw.doc.policy = policyHash[i]
           /\ d # Null => now - raw.doc.givenAt[2] <= d[1] * MsPerDay
        THEN Some(raw.doc)
        ELSE Null

\* C32: server.get, server.set and server.clear, and clear(text) of the flat API,
\* leave the stores, every cache, every listener set, the guards and the channels
\* as they are and call no listener; server.get answers from the header text
\* alone, server.set with the empty text from its argument and the defaults
\* alone, and the clearing header is the same whatever is stored.
C32_ServerStateless ==
    [][ last'.op \in {"server.get", "server.set", "server.clear", "clear(text)"} =>
            /\ UNCHANGED <<cookie, localStore, cachedState, listeners, chan, guards, created>>
            /\ last'.fired = NoneFired /\ last'.posted = NonePosted
            /\ last'.op = "server.get" => last'.fresh = HeaderResolution(last'.inst, last'.arg)
            /\ last'.op = "server.set" =>
                    LET n == last'.next[1] IN
                    /\ n.policy = policyHash[last'.inst] /\ n.givenAt = IsoString(now)
                    /\ \A c \in Allowed(last'.inst) \ {Necessary} :
                            Lookup(n.choices, c) = MergedValue(last'.arg, c, Null)
            /\ last'.op \in {"server.clear", "clear(text)"} =>
                    (last'.next[1].maxAgeSec = 0 /\ last'.next[1].value = EmptyRaw)
      ]_vars

\* server.get('') answered Unset in a tab whose cookie jar holds a snapshot that
\* its client has cached as Decided, with a listener subscribed and a signal
\* pending for the other tab.
C32_Witness ==
    /\ last.op = "server.get" /\ last.inst = "A" /\ last.arg = <<>> /\ last.fresh = Null
    /\ cookie.kind = "json" /\ cachedState["A"] = Decided(cookie.doc)
    /\ listeners["A"] = {"L1"} /\ chan["B"] = 1

\* The first non-empty raw value in the read order of instance i (the empty value
\* when every store of the order is empty).
FirstRaw(i) ==
    LET order == StorageOrder(cfg[i])
        full == {k \in DOMAIN order : Readable(order[k]).kind # "empty"}
    IN  IF full = {} THEN EmptyRaw
        ELSE Readable(order[CHOOSE k \in full : \A j \in full : k <= j])

\* A raw value that decodes to a well-formed snapshot of the policy of instance
\* i inside its re-consent window.
Acceptable(i, raw) ==
    /\ raw.kind = "json"
    /\ WellFormed(raw.doc)
    /\ raw.doc.policy = policyHash[i]
    /\ cfg[i].consentMaxAgeDays # Null =>
           now - raw.doc.givenAt[2] <= cfg[i].consentMaxAgeDays[1] * MsPerDay

\* C33: whenever the instance has just resolved its stores (construction, a set
\* that wrote, a clear, a handled signal), its state is Decided with the first
\* non-empty raw value of its read order if that value is acceptable, and Unset
\* if it is not, whatever the later stores of the order hold.
C33_NoFallThrough ==
    (/\ last.op \in {"create", "set", "clear", "message"}
     /\ last.op = "set" => last.writes = 1) =>
        LET i == last.inst IN
        IF Acceptable(i, FirstRaw(i))
        THEN cachedState[i] = Decided(FirstRaw(i).doc)
        ELSE cachedState[i] = UnsetState

\* Tab A resolved a localStorage value that has grown older than its window and
\* is Unset, while the cookie, later in its order, holds an acceptable snapshot.
C33_Witness ==
    /\ last.op \in {"create", "set", "message"} /\ last.inst = "A"
    /\ localStore.kind = "json" /\ WellFormed(localStore.doc)
    /\ localStore.doc.policy = policyHash["A"]
    /\ ~Acceptable("A", localStore)
    /\ Acceptable("A", cookie)
    /\ cachedState["A"] = UnsetState

\* C34: when a tab handles a signal, each of its guards in phase waiting whose
\* category the stores then grant has onGrant called exactly once and leaves
\* waiting, and each of its guards in phase granted whose category the stores no
\* longer grant (a remote set or clear) has onRevoke called exactly once and is
\* done; a guard changes only in guard(), its dispose function, or a handled
\* signal, set or clear of its own tab, so a remote write alone does not move it.
C34_GuardsFollowRemote ==
    [][ \A g \in Guards :
          LET G == guards[g]
              handled == last'.op = "message" /\ last'.inst = G.inst
              granted == GetCategory(Resolution(G.inst), G.category)
          IN  /\ (handled /\ G.made /\ G.phase = "waiting" /\ granted) =>
                    /\ guards'[g].grants = G.grants + 1 /\ guards'[g].revokes = G.revokes
                    /\ last'.fired[g] = 1
                    /\ guards'[g].phase = IF G.hasRevoke THEN "granted" ELSE "done"
              /\ (handled /\ G.made /\ G.phase = "granted" /\ ~granted) =>
                    /\ guards'[g].revokes = G.revokes + 1 /\ guards'[g].grants = G.grants
                    /\ last'.fired[g] = 1
                    /\ guards'[g].phase = "done"
              /\ guards'[g] # G =>
                    \/ last'.op \in {"guard", "dispose"}
                    \/ last'.op \in {"message", "set", "clear"} /\ last'.inst = G.inst
      ]_vars

\* Tab A's guard, granted earlier, has just been revoked by A handling a signal
\* with the stores cleared (a clear of A itself would have revoked it on the spot).
C34_Witness ==
    /\ last.op = "message" /\ last.inst = "A" /\ last.fired["G1"] = 1
    /\ guards["G1"].grants = 1 /\ guards["G1"].revokes = 1 /\ guards["G1"].phase = "done"
    /\ cookie.kind = "empty" /\ cachedState["B"] = UnsetState

\* The consent mode of tab A is enabled and its listener is subscribed.
ConsentModeOn == dataLayer # <<>> /\ "M1" \in listeners["A"]

\* window.dataLayer, once anything was sent, starts with the one default command
\* and holds update commands after it.
DefaultFirst ==
    dataLayer # <<>> =>
        /\ dataLayer[1][2] = "default"
        /\ \A k \in DOMAIN dataLayer : k > 1 => dataLayer[k][2] = "update"

\* C35: enableConsentMode sends the default command once, first, and an update
\* right after it exactly if instance.get() is decided then; afterwards one
\* update is sent at each change notification of the instance (a set that wrote,
\* a clear, a handled signal) at which the listener is subscribed and
\* instance.get() is decided, and nothing else is ever sent: none by a clear,
\* none once the returned function has unsubscribed the listener.
C35_ConsentMode ==
    [][ /\ DefaultFirst'
        /\ last'.op = "enableConsentMode" =>
              /\ Len(dataLayer') = (IF ClientGetState("A").decision = "decided" THEN 2 ELSE 1)
              /\ dataLayer'[1][3][2] = <<"analytics_storage",
                                         IF ClientGet("A", "a") THEN "granted" ELSE "denied">>
        /\ last'.op # "enableConsentMode" =>
              LET notified == /\ last'.inst = "A"
                              /\ \/ last'.op \in {"clear", "message"}
                                 \/ last'.op = "set" /\ last'.writes = 1
                  sends == ConsentModeOn /\ notified /\ ClientGetState("A")'.decision = "decided"
              IN  /\ Len(dataLayer') = Len(dataLayer) + (IF sends THEN 1 ELSE 0)
                  /\ SubSeq(dataLayer', 1, Len(dataLayer)) = dataLayer
                  /\ sends => dataLayer'[Len(dataLayer')][3][2] =
                                <<"analytics_storage",
                                  IF ClientGet("A", "a")' THEN "granted" ELSE "denied">>
        /\ last'.op = "clear" => dataLayer' = dataLayer
        /\ (dataLayer # <<>> /\ "M1" \notin listeners["A"]) => dataLayer' = dataLayer
      ]_vars

\* After the default command and the update of a grant, the listener was
\* unsubscribed, and a set of tab A that wrote a denial has sent nothing.
C35_Witness ==
    /\ Len(dataLayer) = 2 /\ dataLayer[2][2] = "update"
    /\ dataLayer[2][3][2] = <<"analytics_storage", "granted">>
    /\ "M1" \notin listeners["A"]
    /\ last.op = "set" /\ last.inst = "A" /\ last.writes = 1
    /\ ~ClientGet("A", "a")

\* The signals in flight: those posted and not handled yet, over all channels.
InFlight == chan["A"] + chan["B"]

\* The step is a set that wrote or a clear: a local change.
LocalChange == last'.op \in {"set", "clear"} /\ last'.writes = 1

\* C36: handling a signal writes no store and posts nothing, it takes one signal
\* off the handler's channel; the only steps that post are a set that wrote and a
\* clear, one signal to every other open channel each; and if from some point on
\* no local change is made, then from some point on no signal is in flight.
C36_NoEcho ==
    /\ [][ /\ last'.op = "message" =>
                /\ UNCHANGED <<cookie, localStore>>
                /\ last'.posted = NonePosted
                /\ chan' = [chan EXCEPT ![last'.inst] = @ - 1]
           /\ LocalChange =>
                chan' = [j \in Inst |-> IF j \in created \ {last'.inst} THEN chan[j] + 1 ELSE chan[j]]
           /\ (last'.op # "message" /\ ~LocalChange) => chan' = chan
         ]_vars
    /\ (<>[][~LocalChange]_vars) => <>[](InFlight = 0)

\* Tab A has handled the signal of tab B's set, and nothing is in flight.
C36_Witness ==
    /\ last.op = "message" /\ last.inst = "A"
    /\ cachedState["A"].decision = "decided" /\ cachedState["A"] = cachedState["B"]
    /\ InFlight = 0

\* C37: with two instances of one policy identity that declare their categories
\* in different orders, a client.set whose resulting choices give every category
\* the boolean that the stored snapshot gives it leaves the stores and the
\* channels as they are and calls no listener.
C37_OrderIndependentNoOp ==
    [][ (/\ last'.op = "set"
         /\ policyHash["A"] = policyHash["B"]
         /\ cfg["A"].categories # cfg["B"].categories
         /\ last'.fresh # Null
         /\ Keys(last'.next[1].choices) = Keys(last'.fresh[1].choices)
         /\ \A c \in Keys(last'.next[1].choices) :
                Lookup(last'.next[1].choices, c) = Lookup(last'.fresh[1].choices, c))
        => (/\ UNCHANGED <<cookie, localStore, chan, cachedState>>
            /\ last'.fired = NoneFired)
      ]_vars

\* C38: subscribing a callback that is subscribed already leaves one registration
\* of it, so a notification pass calls it once; a call of any unsubscribe function
\* ever returned for a callback leaves the callback unsubscribed, also when the
\* callback was subscribed again after that function was returned.
C38_ListenerIdentity ==
    [][ LET i == last'.inst IN
        /\ last'.op = "subscribe" =>
              listeners'[i] = listeners[i] \cup {last'.arg[1][1]}
        /\ last'.op = "unsubscribe" =>
              /\ last'.arg[1][1] \notin listeners'[i]
              /\ listeners'[i] = listeners[i] \ {last'.arg[1][1]}
        /\ (last'.op \in {"set", "clear"} /\ last'.writes = 1) =>
              \A cb \in PlainListeners : last'.fired[cb] = (IF cb \in listeners[i] THEN 1 ELSE 0)
      ]_vars

\* The first unsubscribe function returned for L1 was called when L1 had been
\* subscribed twice and was registered, and L1 is gone.
C38_Witness ==
    /\ last.op = "unsubscribe" /\ last.arg = << <<"L1", 1>> >>
    /\ unsubs["A"]["L1"] = 2
    /\ "L1" \in last.subs /\ "L1" \notin listeners["A"]

\* C39: when a notification pass calls the watcher of a waiting guard with the
\* category granted, onGrant is called; if it throws, the phase is still waiting
\* and the watcher still subscribed afterwards (so the next such pass calls
\* onGrant again), and if it returns, the phase has left waiting. When onGrant
\* throws inside guard() itself, guard() returns no dispose function, and the
\* watcher is in the listener set with the phase waiting.
C39_AdvanceAfterReturn ==
    [][ LET G == guards["G1"]
            N == guards'["G1"]
            throws == \/ G.onGrant = "throws"
                      \/ G.onGrant = "throwsOnce" /\ G.grants = 0
                      \/ G.onGrant = "disposes" /\ ~G.returned
            pass == /\ last'.inst = G.inst
                    /\ \/ last'.op \in {"clear", "message"}
                       \/ last'.op = "set" /\ last'.writes = 1
        IN  /\ (/\ pass /\ G.made /\ G.phase = "waiting" /\ "G1" \in listeners[G.inst]
                /\ ClientGet(G.inst, G.category)') =>
                    /\ last'.fired["G1"] = 1
                    /\ N.grants = Count(G.grants)
                    /\ IF throws
                       THEN N.phase = "waiting" /\ "G1" \in listeners'[G.inst]
                       ELSE N.phase # "waiting"
            /\ (last'.op = "guard" /\ ~G.made) =>
                    /\ N.returned <=> ~(ClientGet(N.inst, N.category) /\ N.onGrant # "returns")
                    /\ ~N.returned =>
                          /\ N.grants = 1 /\ N.phase = "waiting"
                          /\ "G1" \in listeners'[N.inst]
            /\ last'.op = "dispose" => G.returned
      ]_vars

\* onGrant threw inside guard(), so no dispose function was returned; the watcher
\* stayed subscribed, and the next pass with the category granted called onGrant
\* again, which returned: the guard is granted.
C39_Witness ==
    /\ guards["G1"].onGrant = "throwsOnce" /\ ~guards["G1"].returned
    /\ guards["G1"].grants = 2 /\ guards["G1"].phase = "granted"
    /\ "G1" \in listeners["A"]
    /\ last.op = "set" /\ last.fired["G1"] = 1

\* The phase changes of a guard: waiting to granted, waiting to done, granted to done.
PhaseMoves == { <<"waiting", "granted">>, <<"waiting", "done">>, <<"granted", "done">> }

\* C40: the phase of a guard changes only along waiting to granted, waiting to
\* done and granted to done; after every operation the watcher of a guard is in
\* the listener set of its instance exactly if the phase is waiting or granted,
\* and a guard whose dispose function has been called is done.
C40_PhaseAndSubscription ==
    [][ \A g \in Guards :
          LET G == guards[g]
              N == guards'[g]
          IN  /\ (G.made /\ N.phase # G.phase) => <<G.phase, N.phase>> \in PhaseMoves
              /\ N.made => (g \in listeners'[N.inst] <=> N.phase \in {"waiting", "granted"})
              /\ N.disposed => N.phase = "done"
      ]_vars

====
